---- MODULE Spec2Model ----
(***************************************************************************)
(* Streaming-history analyzer: ingestion, identity resolution, aggregation *)
(* and temporal analysis.  The repository holds two copies of the engine:  *)
(*   "adapter"  = src/app/components/streaming-adapter.js                  *)
(*   "rankings" = src/app/components/podcast-rankings.js (lines 837-1335)  *)
(* Operators that differ between the copies take the copy as `impl`.       *)
(*                                                                         *)
(* Strings are sequences of one-character strings.  A missing (undefined,  *)
(* null) or empty name is the empty sequence: every test the code makes on *)
(* a name (!x, x || default) treats the three alike.                       *)
(* Time is counted in hours since the epoch (see DayLen)  .                *)
(***************************************************************************)
EXTENDS Integers, Sequences, FiniteSets, TLC

Impls == {"adapter", "rankings"}

(***************************************************************************)
(* Characters and the JavaScript string primitives the code uses           *)
(***************************************************************************)
Upper == <<"A","B","C","D","E","F","G","H","I","J","K","L","M",
           "N","O","P","Q","R","S","T","U","V","W","X","Y","Z">>
Lower == <<"a","b","c","d","e","f","g","h","i","j","k","l","m",
           "n","o","p","q","r","s","t","u","v","w","x","y","z">>
Digit == {"0","1","2","3","4","5","6","7","8","9"}

Range(s) == {s[i] : i \in DOMAIN s}

\* \w of the regular expressions: [A-Za-z0-9_]
IsWordChar(c) == c \in Range(Upper) \cup Range(Lower) \cup Digit \cup {"_"}

\* \s of the regular expressions (the model's strings hold no line breaks)
IsSpace(c) == c \in {" ", "\t"}

LowerChar(c) ==
  IF c \in Range(Upper) THEN Lower[CHOOSE k \in DOMAIN Upper : Upper[k] = c]
  ELSE c

toLowerCase(s) == [i \in DOMAIN s |-> LowerChar(s[i])]

\* a letter outside ASCII: U+00DF, lower case, whose upper case is "SS"
Eszett == "ß"

\* String.prototype.toUpperCase of one character
UpperChar(c) ==
  IF c \in Range(Lower) THEN <<Upper[CHOOSE k \in DOMAIN Lower : Lower[k] = c]>>
  ELSE IF c = Eszett THEN <<"S", "S">>
  ELSE <<c>>

RECURSIVE toUpperCase(_)
toUpperCase(s) ==
  IF s = <<>> THEN <<>> ELSE UpperChar(Head(s)) \o toUpperCase(Tail(s))

\* pat occurs in s at position i (1-based)
OccursAt(s, pat, i) ==
  /\ i >= 1
  /\ i + Len(pat) - 1 <= Len(s)
  /\ \A k \in 1..Len(pat) : s[i + k - 1] = pat[k]

\* String.prototype.indexOf from position `from`; 0 stands for JavaScript's -1
indexOf(s, pat, from) ==
  LET hits == {i \in from..(Len(s) - Len(pat) + 1) : OccursAt(s, pat, i)}
  IN IF hits = {} THEN 0 ELSE CHOOSE i \in hits : \A j \in hits : i <= j

includes(s, pat) == indexOf(s, pat, 1) # 0

endsWith(s, pat) == OccursAt(s, pat, Len(s) - Len(pat) + 1)

(***************************************************************************)
(* The regular expressions of normalizeString.  Each has the shape         *)
(*    open  [.*? word]  .*?  \)                                            *)
(* with a literal `open` that starts with "(" ; `gap` says whether the     *)
(* lazy .*? before `word` is there.  The match that starts at i ends at    *)
(* the first ")" after the first place where the rest can match.           *)
(***************************************************************************)
MatchEnd(s, i, open, gap, word) ==
  IF ~OccursAt(s, open, i) THEN 0
  ELSE LET p == i + Len(open)
           j == IF gap THEN indexOf(s, word, p)
                ELSE IF OccursAt(s, word, p) \/ word = <<>> THEN p ELSE 0
       IN IF j = 0 THEN 0 ELSE indexOf(s, <<")">>, j + Len(word))

\* s.replace(/.../g, '') for one such expression, scanning from position i
RECURSIVE RemoveFrom(_, _, _, _, _)
RemoveFrom(s, i, open, gap, word) ==
  IF i > Len(s) THEN <<>>
  ELSE LET e == MatchEnd(s, i, open, gap, word)
       IN IF e # 0 THEN RemoveFrom(s, e + 1, open, gap, word)
          ELSE <<s[i]>> \o RemoveFrom(s, i + 1, open, gap, word)

RemoveAll(s, open, gap, word) == RemoveFrom(s, 1, open, gap, word)

\* .replace(/[^\w\s]/g, '')
RemovePunctuation(s) == SelectSeq(s, LAMBDA c : IsWordChar(c) \/ IsSpace(c))

\* .replace(/\s+/g, ' ')
RECURSIVE CollapseSpaces(_)
CollapseSpaces(s) ==
  IF s = <<>> THEN <<>>
  ELSE IF IsSpace(Head(s))
       THEN IF Len(s) > 1 /\ IsSpace(s[2]) THEN CollapseSpaces(Tail(s))
            ELSE <<" ">> \o CollapseSpaces(Tail(s))
       ELSE <<Head(s)>> \o CollapseSpaces(Tail(s))

\* .trim()
RECURSIVE trim(_)
trim(s) ==
  IF s = <<>> THEN <<>>
  ELSE IF IsSpace(Head(s)) THEN trim(Tail(s))
  ELSE IF IsSpace(s[Len(s)]) THEN trim(SubSeq(s, 1, Len(s) - 1))
  ELSE s

Feat    == <<"(","f","e","a","t",".">>
Ft      == <<"(","f","t",".">>
With    == <<"(","w","i","t","h">>
Version == <<"v","e","r","s","i","o","n">>
Remix   == <<"r","e","m","i","x">>
EditW   == <<"e","d","i","t">>

\* the qualifier-stripping replaces, in the order each copy applies them
StripQualifiers(impl, s) ==
  IF impl = "adapter" THEN RemoveAll(s, Feat, FALSE, <<>>)
  ELSE LET a == RemoveAll(s, Feat, FALSE, <<>>)
           b == RemoveAll(a, Ft, FALSE, <<>>)
           c == RemoveAll(b, With, FALSE, <<>>)
           d == RemoveAll(c, <<"(">>, TRUE, Version)
           e == RemoveAll(d, <<"(">>, TRUE, Remix)
       IN RemoveAll(e, <<"(">>, TRUE, EditW)

normalizeString(impl, str) ==
  IF str = <<>> THEN <<>>
  ELSE trim(CollapseSpaces(RemovePunctuation(StripQualifiers(impl, toLowerCase(str)))))

JustDroppedIn == <<"j","u","s","t"," ","d","r","o","p","p","e","d"," ","i","n">>
KennyRogers   == <<"k","e","n","n","y"," ","r","o","g","e","r","s">>
OverrideKey   == <<"j","u","s","t","-","d","r","o","p","p","e","d","-","i","n","-",
                   "k","e","n","n","y","-","r","o","g","e","r","s">>

createMatchKey(impl, trackName, artistName) ==
  IF /\ impl = "adapter"
     /\ trackName # <<>> /\ artistName # <<>>
     /\ includes(toLowerCase(trackName), JustDroppedIn)
     /\ includes(toLowerCase(artistName), KennyRogers)
  THEN OverrideKey
  ELSE normalizeString(impl, trackName) \o <<"-">> \o normalizeString(impl, artistName)

(***************************************************************************)
(* JavaScript numbers.  NaN stands for NaN and for undefined used as a     *)
(* number (undefined < n is false, x + undefined is NaN); every other      *)
(* number of the model is a natural number.                                *)
(***************************************************************************)
NaN == 0 - 1

JsLess(a, b) == a # NaN /\ b # NaN /\ a < b

JsLeq(a, b) == a # NaN /\ b # NaN /\ a <= b

JsPlus(a, b) == IF a = NaN \/ b = NaN THEN NaN ELSE a + b

MathMin(a, b) == IF a = NaN \/ b = NaN THEN NaN ELSE IF a <= b THEN a ELSE b

\* a value that is not a string (a number, true, an object) in a name field
NonString == <<"#non-string">>

\* JavaScript's null in a field that otherwise holds a time
Null == 0 - 2

(***************************************************************************)
(* Time.  One unit of the model is one hour; 1000 * 60 * 60 * 24 ms, the   *)
(* day of the code, is DayLen units.  Dates are days since 1970-01-01 UTC; *)
(* toISOString().split('T')[0] is the civil date <<year, month, day>> of   *)
(* the UTC day, and strings "YYYY-MM-DD" compare as these triples do.      *)
(***************************************************************************)
DayLen == 24

civilFromDays(z0) ==
  LET z   == z0 + 719468
      era == z \div 146097
      doe == z - era * 146097
      yoe == (doe - doe \div 1460 + doe \div 36524 - doe \div 146096) \div 365
      doy == doe - (365 * yoe + yoe \div 4 - yoe \div 100)
      mp  == (5 * doy + 2) \div 153
      d   == doy - (153 * mp + 2) \div 5 + 1
      m   == IF mp < 10 THEN mp + 3 ELSE mp - 9
      y   == yoe + era * 400 + (IF m <= 2 THEN 1 ELSE 0)
  IN <<y, m, d>>

daysFromCivil(c) ==
  LET y   == c[1] - (IF c[2] <= 2 THEN 1 ELSE 0)
      era == y \div 400
      yoe == y - era * 400
      mp  == IF c[2] > 2 THEN c[2] - 3 ELSE c[2] + 9
      doy == (153 * mp + 2) \div 5 + c[3] - 1
      doe == yoe * 365 + yoe \div 4 - yoe \div 100 + doy
  IN era * 146097 + doe - 719468

\* new Date(ts).toISOString().split('T')[0]
isoDay(ts) == civilFromDays(ts \div DayLen)

\* new Date("YYYY-MM-DD").getTime(): midnight UTC of that day
parseDay(c) == daysFromCivil(c) * DayLen

\* the order of Array.prototype.sort() on the date strings
DayStringLess(a, b) ==
  \/ a[1] < b[1]
  \/ a[1] = b[1] /\ a[2] < b[2]
  \/ a[1] = b[1] /\ a[2] = b[2] /\ a[3] < b[3]

(***************************************************************************)
(* calculatePlayStats.  A play event is a record                           *)
(*   [track, artist, album : string, ms : number, ts : number, source]     *)
(* where ts is new Date(entry.ts).getTime() (NaN when entry.ts is missing  *)
(* or unparseable) and ms is entry.ms_played (NaN when missing).           *)
(*                                                                         *)
(* The objects of the code (trackMap, artistStats, albumStats) are         *)
(* sequences in insertion order, the order Object.values / Map.values      *)
(* give; songPlayHistory is a function from key to the list of times.      *)
(***************************************************************************)
ShortPlayMs == 30000

UnknownArtist == <<"U","n","k","n","o","w","n"," ","A","r","t","i","s","t">>
UnknownAlbum  == <<"U","n","k","n","o","w","n"," ","A","l","b","u","m">>

EmptyStats ==
  [trackMap |-> <<>>, artists |-> <<>>, albums |-> <<>>,
   playHistory |-> <<>>,
   totalListeningTime |-> 0, processedSongs |-> 0, shortPlays |-> 0,
   threw |-> FALSE]

\* position of the element of seq whose field f is k; 0 when there is none
PosOf(seq, f, k) ==
  IF \E i \in DOMAIN seq : seq[i][f] = k
  THEN CHOOSE i \in DOMAIN seq : seq[i][f] = k
  ELSE 0

\* songPlayHistory is kept as a sequence of [key, times] in insertion order
HistoryOf(playHistory, key) ==
  LET i == PosOf(playHistory, "key", key)
  IN IF i = 0 THEN <<>> ELSE playHistory[i].times

PushHistory(playHistory, key, t) ==
  LET i == PosOf(playHistory, "key", key)
  IN IF i = 0 THEN Append(playHistory, [key |-> key, times |-> <<t>>])
     ELSE [playHistory EXCEPT ![i].times = Append(@, t)]

\* UpdateArtist that keeps the time of the first event as firstListen
UpdateArtist_FirstSeen(artists, artistName, playTime, t) ==
  LET i    == PosOf(artists, "name", artistName)
      base == IF i = 0
              THEN Append(artists, [name |-> artistName, totalPlayed |-> 0,
                                    playCount |-> 0, firstListen |-> t])
              ELSE artists
      j    == IF i = 0 THEN Len(base) ELSE i
  IN [base EXCEPT ![j].totalPlayed = JsPlus(@, playTime),
                  ![j].playCount   = @ + 1]

UpdateArtist(artists, artistName, playTime, t) ==
  LET i    == PosOf(artists, "name", artistName)
      base == IF i = 0
              THEN Append(artists, [name |-> artistName, totalPlayed |-> 0,
                                    playCount |-> 0, firstListen |-> t])
              ELSE artists
      j    == IF i = 0 THEN Len(base) ELSE i
  IN [base EXCEPT ![j].totalPlayed = JsPlus(@, playTime),
                  ![j].playCount   = @ + 1,
                  ![j].firstListen = MathMin(@, t)]

\* UpdateAlbum that counts a play only when the track is new to the album
UpdateAlbum_CountTracks(albums, albumName, artistName, trackName, playTime, t) ==
  LET albumKey == albumName \o <<"-">> \o artistName
      i    == PosOf(albums, "key", albumKey)
      base == IF i = 0
              THEN Append(albums, [key |-> albumKey, name |-> albumName,
                                   artist |-> artistName, totalPlayed |-> 0,
                                   playCount |-> 0, trackCount |-> {},
                                   firstListen |-> t])
              ELSE albums
      j    == IF i = 0 THEN Len(base) ELSE i
  IN [base EXCEPT ![j].totalPlayed = JsPlus(@, playTime),
                  ![j].playCount   = IF trackName \in base[j].trackCount THEN @ ELSE @ + 1,
                  ![j].trackCount  = @ \cup {trackName},
                  ![j].firstListen = MathMin(@, t)]

UpdateAlbum(albums, albumName, artistName, trackName, playTime, t) ==
  LET albumKey == albumName \o <<"-">> \o artistName
      i    == PosOf(albums, "key", albumKey)
      base == IF i = 0
              THEN Append(albums, [key |-> albumKey, name |-> albumName,
                                   artist |-> artistName, totalPlayed |-> 0,
                                   playCount |-> 0, trackCount |-> {},
                                   firstListen |-> t])
              ELSE albums
      j    == IF i = 0 THEN Len(base) ELSE i
  IN [base EXCEPT ![j].totalPlayed = JsPlus(@, playTime),
                  ![j].playCount   = @ + 1,
                  ![j].trackCount  = @ \cup {trackName},
                  ![j].firstListen = MathMin(@, t)]

\* UpdateTrack that gives an existing track the album name of every event
UpdateTrack_LatestAlbum(impl, trackMap, matchKey, standardKey, trackName, artistName, albumName, playTime, source) ==
  LET i == PosOf(trackMap, "mk", matchKey)
  IN IF i # 0
     THEN [trackMap EXCEPT
             ![i].totalPlayed    = JsPlus(@, playTime),
             ![i].playCount      = @ + 1,
             ![i].albumName      = albumName,
             ![i].hasSpotifyData = @ \/ (impl = "rankings" /\ source = "spotify")]
     ELSE Append(trackMap,
                 [mk |-> matchKey, key |-> standardKey, trackName |-> trackName,
                  artist |-> artistName, albumName |-> albumName,
                  totalPlayed |-> playTime, playCount |-> 1,
                  hasSpotifyData |-> (impl = "rankings" /\ source = "spotify")])

\* UpdateTrack that overwrites the total of an existing track
UpdateTrack_Overwrite(impl, trackMap, matchKey, standardKey, trackName, artistName, albumName, playTime, source) ==
  LET i == PosOf(trackMap, "mk", matchKey)
  IN IF i # 0
     THEN [trackMap EXCEPT ![i].totalPlayed = playTime,
                           ![i].playCount   = @ + 1]
     ELSE Append(trackMap,
                 [mk |-> matchKey, key |-> standardKey, trackName |-> trackName,
                  artist |-> artistName, albumName |-> albumName,
                  totalPlayed |-> playTime, playCount |-> 1,
                  hasSpotifyData |-> (impl = "rankings" /\ source = "spotify")])

\* the track map; mk is the key of the map entry, hasSpotifyData exists
\* in the "rankings" copy only and stays FALSE in the other
UpdateTrack(impl, trackMap, matchKey, standardKey, trackName, artistName, albumName, playTime, source) ==
  LET i == PosOf(trackMap, "mk", matchKey)
  IN IF i # 0
     THEN LET improve == impl = "rankings" /\ source = "spotify"
                         /\ ~trackMap[i].hasSpotifyData
          IN [trackMap EXCEPT
                ![i].totalPlayed    = JsPlus(@, playTime),
                ![i].playCount      = @ + 1,
                ![i].albumName      = IF improve THEN albumName ELSE @,
                ![i].hasSpotifyData = IF improve THEN TRUE ELSE @]
     ELSE Append(trackMap,
                 [mk |-> matchKey, key |-> standardKey, trackName |-> trackName,
                  artist |-> artistName, albumName |-> albumName,
                  totalPlayed |-> playTime, playCount |-> 1,
                  hasSpotifyData |-> (impl = "rankings" /\ source = "spotify")])

\* IsSkipped without the test of the play time
IsSkipped_NameOnly(entry) == entry.track = <<>>

\* the test that skips an entry (no track name, or a short play)
IsSkipped(entry) == entry.track = <<>> \/ JsLess(entry.ms, ShortPlayMs)

\* one iteration of entries.forEach in calculatePlayStats
ProcessEntry(impl, st, entry) ==
  IF st.threw THEN st
  ELSE IF IsSkipped(entry)
  THEN [st EXCEPT !.shortPlays =
          IF JsLess(entry.ms, ShortPlayMs) THEN @ + 1 ELSE @]
  ELSE LET playTime   == entry.ms
           trackName  == entry.track
           artistName == IF entry.artist = <<>> THEN UnknownArtist ELSE entry.artist
           albumName  == IF entry.album = <<>> THEN UnknownAlbum ELSE entry.album
       IN IF trackName = NonString \/ artistName = NonString
          \* createMatchKey calls toLowerCase on a value that has none
          THEN [st EXCEPT !.threw = TRUE]
          ELSE LET standardKey == trackName \o <<"-">> \o artistName
                   matchKey    == createMatchKey(impl, trackName, artistName)
               IN [st EXCEPT
                     !.processedSongs     = @ + 1,
                     !.totalListeningTime = JsPlus(@, playTime),
                     !.playHistory = PushHistory(@, standardKey, entry.ts),
                     !.artists     = UpdateArtist(@, artistName, playTime, entry.ts),
                     !.albums      = UpdateAlbum(@, albumName, artistName,
                                                 trackName, playTime, entry.ts),
                     !.trackMap    = UpdateTrack(impl, @, matchKey, standardKey,
                                                 trackName, artistName, albumName,
                                                 playTime, entry.source)]

\* the first pass of the "rankings" copy: it indexes the spotify entries by
\* normalized artist and title; the indexes are never read, so all that is
\* left of the pass is that normalizeString throws on a name without
\* toLowerCase
FirstPassThrows(impl, entries) ==
  /\ impl = "rankings"
  /\ \E i \in DOMAIN entries :
       /\ entries[i].source = "spotify"
       /\ entries[i].track # <<>> /\ entries[i].artist # <<>>
       /\ entries[i].album # <<>>
       /\ (entries[i].track = NonString \/ entries[i].artist = NonString)

RECURSIVE ForEachEntry(_, _, _, _)
ForEachEntry(impl, st, entries, i) ==
  IF i > Len(entries) THEN st
  ELSE ForEachEntry(impl, ProcessEntry(impl, st, entries[i]), entries, i + 1)

calculatePlayStats(impl, entries) ==
  IF FirstPassThrows(impl, entries) THEN [EmptyStats EXCEPT !.threw = TRUE]
  ELSE ForEachEntry(impl, EmptyStats, entries, 1)

(***************************************************************************)
(* Sorting.  Array.prototype.sort and _.orderBy are stable; a sort is      *)
(* given by the sequence of the elements' keys (tuples of numbers,         *)
(* compared left to right, ascending).  A comparator that meets NaN gives  *)
(* an order the language leaves to the implementation; NaN is placed as    *)
(* the number it is represented by, and no property rests on that place.   *)
(***************************************************************************)
RECURSIVE TupleLess(_, _)
TupleLess(a, b) ==
  IF a = <<>> \/ b = <<>> THEN FALSE
  ELSE IF Head(a) # Head(b) THEN Head(a) < Head(b)
  ELSE TupleLess(Tail(a), Tail(b))

\* the place of index i in the stable order of the keys: one more than the
\* number of indices that come before it
RankOf(keys, S, i) ==
  Cardinality({j \in S : \/ TupleLess(keys[j], keys[i])
                         \/ ~TupleLess(keys[i], keys[j]) /\ j < i}) + 1

\* the indices in S in the stable order of their keys
OrderIdx(keys, S) ==
  LET rank == [i \in S |-> RankOf(keys, S, i)]
  IN [k \in 1..Cardinality(S) |-> CHOOSE i \in S : rank[i] = k]

orderBy(seq, keys) ==
  LET o == OrderIdx(keys, DOMAIN seq)
  IN [k \in DOMAIN seq |-> seq[o[k]]]

\* timestamps.sort((a, b) => a - b)
sortNumeric(ts) == orderBy(ts, [i \in DOMAIN ts |-> <<ts[i]>>])

slice(seq, n) == SubSeq(seq, 1, IF Len(seq) < n THEN Len(seq) ELSE n)

(***************************************************************************)
(* calculateArtistStreaks                                                  *)
(***************************************************************************)
RECURSIVE SortDays(_)
SortDays(S) ==
  IF S = {} THEN <<>>
  ELSE LET m == CHOOSE x \in S : \A y \in S \ {x} : DayStringLess(x, y)
       IN <<m>> \o SortDays(S \ {m})

\* [...new Set(timestamps.map(ts => day string))].sort()
uniqueDays(timestamps) == SortDays({isoDay(timestamps[i]) : i \in DOMAIN timestamps})

StreakInit ==
  [currentStreak |-> 0, longestStreak |-> 0, streakStart |-> Null, streakEnd |-> Null]

\* StreakStep that lets a later run of equal length replace the recorded one
StreakStep_LatestRun(st, days, i) ==
  LET currentDate == parseDay(days[i])
      continues   == i = 1 \/ currentDate - parseDay(days[i - 1]) = DayLen
  IN IF continues
     THEN LET cs == st.currentStreak + 1
          IN IF cs >= st.longestStreak
             THEN [currentStreak |-> cs, longestStreak |-> cs,
                   streakStart |-> parseDay(days[i - cs + 1]),
                   streakEnd |-> currentDate]
             ELSE [st EXCEPT !.currentStreak = cs]
     ELSE [st EXCEPT !.currentStreak = 1]

\* one iteration of the loop over days (i counts from 1)
StreakStep(st, days, i) ==
  LET currentDate == parseDay(days[i])
      continues   == i = 1 \/ currentDate - parseDay(days[i - 1]) = DayLen
  IN IF continues
     THEN LET cs == st.currentStreak + 1
          IN IF cs > st.longestStreak
             THEN [currentStreak |-> cs, longestStreak |-> cs,
                   streakStart |-> parseDay(days[i - cs + 1]),
                   streakEnd |-> currentDate]
             ELSE [st EXCEPT !.currentStreak = cs]
     ELSE [st EXCEPT !.currentStreak = 1]

RECURSIVE StreakLoop(_, _, _)
StreakLoop(st, days, i) ==
  IF i > Len(days) THEN st ELSE StreakLoop(StreakStep(st, days, i), days, i + 1)

\* StreakResult that counts a streak as cold one day too early
StreakResult_ColdEarly(st, days, now) ==
  LET active == IF days = <<>> THEN FALSE
                ELSE (now - parseDay(days[Len(days)])) \div DayLen < 1
  IN [longestStreak |-> st.longestStreak,
      currentStreak |-> IF active THEN st.currentStreak ELSE 0,
      streakStart |-> st.streakStart, streakEnd |-> st.streakEnd,
      threw |-> FALSE]

\* the part after the loop: is the trailing run still active at `now`
StreakResult(st, days, now) ==
  LET active == IF days = <<>> THEN FALSE   \* NaN <= 1
                ELSE (now - parseDay(days[Len(days)])) \div DayLen <= 1
  IN [longestStreak |-> st.longestStreak,
      currentStreak |-> IF active THEN st.currentStreak ELSE 0,
      streakStart |-> st.streakStart, streakEnd |-> st.streakEnd,
      threw |-> FALSE]

StreakThrown ==
  [longestStreak |-> 0, currentStreak |-> 0, streakStart |-> Null,
   streakEnd |-> Null, threw |-> TRUE]

\* toISOString throws a RangeError on an invalid date
calculateArtistStreaks(timestamps, now) ==
  IF \E i \in DOMAIN timestamps : timestamps[i] = NaN THEN StreakThrown
  ELSE LET days == uniqueDays(timestamps)
       IN StreakResult(StreakLoop(StreakInit, days, 1), days, now)

(***************************************************************************)
(* calculateBriefObsessions                                                *)
(***************************************************************************)
MaxObsessionPlays == 50
WeekDays == 7
MinPlaysInWeek == 5
TopLimit == 100

\* weekStart.setDate(weekStart.getDate() - 7), in a zone without clock changes
weekStartOf(weekEnd) ==
  IF weekEnd = NaN THEN NaN ELSE weekEnd - WeekDays * DayLen

playsInWeek(timestamps, i) ==
  LET weekEnd   == timestamps[i]
      weekStart == weekStartOf(weekEnd)
  IN Cardinality({k \in DOMAIN timestamps :
        JsLeq(weekStart, timestamps[k]) /\ JsLeq(timestamps[k], weekEnd)})

\* the loop over the sorted timestamps: best window so far
RECURSIVE BestWeek(_, _, _)
BestWeek(timestamps, i, best) ==
  IF i > Len(timestamps) THEN best
  ELSE LET n == playsInWeek(timestamps, i)
       IN BestWeek(timestamps, i + 1,
            IF n > best.playsInWeek
            THEN [weekStart |-> weekStartOf(timestamps[i]), playsInWeek |-> n]
            ELSE best)

\* one iteration of songs.forEach: acc = [out, playHistory]; the history of
\* the song is sorted in place
ObsessionStep(acc, song) ==
  LET timestamps == HistoryOf(acc.playHistory, song.key)
  IN IF song.playCount <= MaxObsessionPlays /\ timestamps # <<>>
     THEN LET sorted == sortNumeric(timestamps)
              h      == PosOf(acc.playHistory, "key", song.key)
              best   == BestWeek(sorted, 1, [weekStart |-> Null, playsInWeek |-> 0])
          IN [out |-> IF best.playsInWeek >= MinPlaysInWeek
                      THEN Append(acc.out, [song |-> song, intensePeriod |-> best])
                      ELSE acc.out,
              playHistory |-> [acc.playHistory EXCEPT ![h].times = sorted]]
     ELSE acc

\* songs.forEach over songs[lo..hi], in order.  The range is halved and the
\* first half is evaluated before the second begins, so that the evaluation
\* does not nest as deep as the list is long.
RECURSIVE ObsessionLoop(_, _, _, _)
ObsessionLoop(acc, songs, lo, hi) ==
  IF lo > hi THEN acc
  ELSE IF lo = hi THEN ObsessionStep(acc, songs[lo])
  ELSE LET first == ObsessionLoop(acc, songs, lo, (lo + hi) \div 2)
       IN IF first.out = <<>>
          THEN ObsessionLoop(first, songs, (lo + hi) \div 2 + 1, hi)
          ELSE ObsessionLoop(first, songs, (lo + hi) \div 2 + 1, hi)

\* calculateBriefObsessions that orders by playsInWeek alone
calculateBriefObsessions_ByPlaysOnly(songs, songPlayHistory) ==
  LET acc == ObsessionLoop([out |-> <<>>, playHistory |-> songPlayHistory], songs, 1,
                           Len(songs))
      keys == [k \in DOMAIN acc.out |->
                 <<0 - acc.out[k].intensePeriod.playsInWeek>>]
  IN [out |-> slice(orderBy(acc.out, keys), TopLimit),
      playHistory |-> acc.playHistory]

\* returns [out |-> the ordered, capped list, playHistory |-> the histories
\* as the call leaves them]
calculateBriefObsessions(songs, songPlayHistory) ==
  LET acc == ObsessionLoop([out |-> <<>>, playHistory |-> songPlayHistory], songs, 1,
                           Len(songs))
      keys == [k \in DOMAIN acc.out |->
                 <<0 - acc.out[k].intensePeriod.playsInWeek,
                   acc.out[k].intensePeriod.weekStart>>]
  IN [out |-> slice(orderBy(acc.out, keys), TopLimit),
      playHistory |-> acc.playHistory]

(***************************************************************************)
(* calculateSongsByYear.  The result is a sequence of [year, songs], one   *)
(* element per year.  The scaled totalPlayed is a quotient the code        *)
(* computes in floating point; it is kept as the exact fraction            *)
(* <<numerator, denominator>>.  spotifyScore = playCount ^ 1.5 is kept as  *)
(* its square, playCount ^ 3, which orders the songs the same way.         *)
(***************************************************************************)
\* new Date(ts).getFullYear(), in a zone without offset from UTC
yearOf(ts) == IF ts = NaN THEN NaN ELSE civilFromDays(ts \div DayLen)[1]

RECURSIVE SortNumbers(_)
SortNumbers(S) ==
  IF S = {} THEN <<>>
  ELSE LET m == CHOOSE x \in S : \A y \in S : x <= y
       IN <<m>> \o SortNumbers(S \ {m})

\* songsByYear[year].push(variant)
PushYear(byYear, year, variant) ==
  LET i == PosOf(byYear, "year", year)
  IN IF i = 0 THEN Append(byYear, [year |-> year, songs |-> <<variant>>])
     ELSE [byYear EXCEPT ![i].songs = Append(@, variant)]

\* the forEach over Object.entries(playsByYear) of one song
RECURSIVE YearEntries(_, _, _, _, _)
YearEntries(byYear, song, timestamps, years, k) ==
  IF k > Len(years) THEN byYear
  ELSE LET n == Cardinality({i \in DOMAIN timestamps : yearOf(timestamps[i]) = years[k]})
           variant == [song |-> song,
                       totalPlayed |-> <<IF song.totalPlayed = NaN THEN NaN ELSE song.totalPlayed * n,
                                       Len(timestamps)>>,
                       playCount |-> n,
                       scoreSquared |-> n * n * n]
       IN YearEntries(PushYear(byYear, years[k], variant), song, timestamps, years, k + 1)

\* the body of songs.forEach for one song
YearSong(byYear, song, songPlayHistory) ==
  LET timestamps == HistoryOf(songPlayHistory, song.key)
      years == SortNumbers({yearOf(timestamps[k]) : k \in DOMAIN timestamps})
  IN YearEntries(byYear, song, timestamps, years, 1)

\* songs.forEach over songs[lo..hi], in order.  The range is halved and the
\* first half is evaluated before the second begins, so that the evaluation
\* does not nest as deep as the list is long.
RECURSIVE YearSongs(_, _, _, _, _)
YearSongs(byYear, songs, songPlayHistory, lo, hi) ==
  IF lo > hi THEN byYear
  ELSE IF lo = hi THEN YearSong(byYear, songs[lo], songPlayHistory)
  ELSE LET first == YearSongs(byYear, songs, songPlayHistory, lo, (lo + hi) \div 2)
       IN IF first = <<>>
          THEN YearSongs(first, songs, songPlayHistory, (lo + hi) \div 2 + 1, hi)
          ELSE YearSongs(first, songs, songPlayHistory, (lo + hi) \div 2 + 1, hi)

\* calculateSongsByYear that cuts each year's list without ordering it
calculateSongsByYear_Unsorted(songs, songPlayHistory) ==
  LET byYear == YearSongs(<<>>, songs, songPlayHistory, 1, Len(songs))
  IN [y \in DOMAIN byYear |->
        [year |-> byYear[y].year, songs |-> slice(byYear[y].songs, TopLimit)]]

calculateSongsByYear(songs, songPlayHistory) ==
  LET byYear == YearSongs(<<>>, songs, songPlayHistory, 1, Len(songs))
  IN [y \in DOMAIN byYear |->
        [year |-> byYear[y].year,
         songs |-> slice(orderBy(byYear[y].songs,
                                 [k \in DOMAIN byYear[y].songs |->
                                    <<0 - byYear[y].songs[k].scoreSquared>>]),
                         TopLimit)]]

(***************************************************************************)
(* streamingProcessor.processFiles: the per-file callbacks                 *)
(*                                                                         *)
(* A file is [name, json, records, rows]: json says what JSON.parse does   *)
(* with the content ("invalid": it throws, "notArray": a value that is not *)
(* an array, "array": the array `records`); rows is what Papa.parse makes  *)
(* of the content, each row [trackName, lastPlayed, userInitiated] with    *)
(* lastPlayed = parseInt(row['Last Played Date']) (0: the column is empty, *)
(* NaN: it holds no number).                                               *)
(***************************************************************************)
StreamingHistoryCS == <<"S","t","r","e","a","m","i","n","g","_","H","i","s","t","o","r","y">>
StreamingHistoryLC == <<"s","t","r","e","a","m","i","n","g","_","h","i","s","t","o","r","y">>
Endsong == <<"e","n","d","s","o","n","g">>
Apple   == <<"a","p","p","l","e">>
DotJson == <<".","j","s","o","n">>
DotCsv  == <<".","c","s","v">>

\* which adapter the file name selects
adapterOf(impl, name) ==
  IF impl = "adapter"
  THEN IF includes(name, StreamingHistoryCS) /\ endsWith(name, DotJson) THEN "spotify"
       ELSE IF includes(toLowerCase(name), Apple) /\ endsWith(name, DotCsv) THEN "apple"
       ELSE "none"
  ELSE LET fileName == toLowerCase(name)
       IN IF /\ includes(fileName, StreamingHistoryLC) \/ includes(fileName, Endsong)
             /\ endsWith(fileName, DotJson) THEN "spotify"
          ELSE IF includes(fileName, Apple) /\ endsWith(fileName, DotCsv) THEN "apple"
          ELSE "none"

FullPlayMs == 240000
PartialPlayMs == 30000

DashSep  == <<" ","-"," ">>
CommaSep == <<",", " ">>

RECURSIVE lastIndexOf(_, _, _)
lastIndexOf(s, pat, from) ==
  LET i == indexOf(s, pat, from)
  IN IF i = 0 THEN 0
     ELSE LET j == lastIndexOf(s, pat, i + Len(pat)) IN IF j = 0 THEN i ELSE j

KennyTrack ==
  <<"J","u","s","t"," ","D","r","o","p","p","e","d"," ","I","n"," ",
    "(","T","o"," ","S","e","e"," ","W","h","a","t"," ",
    "C","o","n","d","i","t","i","o","n"," ","M","y"," ",
    "C","o","n","d","i","t","i","o","n"," ","I","s"," ","I","n",")">>
KennyArtist ==
  <<"K","e","n","n","y"," ","R","o","g","e","r","s"," ","&"," ",
    "T","h","e"," ","F","i","r","s","t"," ","E","d","i","t","i","o","n">>

\* the split of the combined 'Track Name' field into <<track, artist>>
splitTrackName(impl, field) ==
  LET dash == indexOf(field, DashSep, 1)
  IN IF impl = "adapter"
     THEN IF dash > 1   \* dashIndex > 0, counted from 0
          THEN <<trim(SubSeq(field, dash + 3, Len(field))),
                 trim(SubSeq(field, 1, dash - 1))>>
          ELSE <<field, UnknownArtist>>
     ELSE IF dash # 0
          THEN <<trim(SubSeq(field, dash + 3, Len(field))),
                 trim(SubSeq(field, 1, dash - 1))>>
          ELSE LET comma == lastIndexOf(field, CommaSep, 1)
               IN IF comma # 0
                  THEN <<trim(SubSeq(field, 1, comma - 1)),
                         trim(SubSeq(field, comma + 2, Len(field)))>>
                  ELSE <<field, UnknownArtist>>

\* the mapping of one CSV row that passed the filter; `now` is the clock
\* read by the fallback.  [event, threw]
appleRow(impl, row, now) ==
  LET ms == IF row.userInitiated THEN FullPlayMs ELSE PartialPlayMs
      lc == toLowerCase(row.trackName)
  IN IF row.trackName = NonString THEN [event |-> <<>>, threw |-> TRUE]
     ELSE IF impl = "adapter" /\ includes(lc, JustDroppedIn) /\ includes(lc, KennyRogers)
     THEN IF row.lastPlayed = NaN THEN [event |-> <<>>, threw |-> TRUE]
          ELSE [event |-> <<[track |-> KennyTrack, artist |-> KennyArtist,
                             album |-> UnknownAlbum, ms |-> ms,
                             ts |-> row.lastPlayed, source |-> "apple_music"]>>,
                threw |-> FALSE]
     ELSE LET sp == splitTrackName(impl, row.trackName)
          IN [event |-> <<[track |-> sp[1], artist |-> sp[2],
                           album |-> UnknownAlbum, ms |-> ms,
                           ts |-> IF row.lastPlayed = NaN THEN now ELSE row.lastPlayed,
                           source |-> "apple_music"]>>,
              threw |-> FALSE]

RECURSIVE appleRows(_, _, _, _)
appleRows(impl, rows, i, now) ==
  IF i > Len(rows) THEN [events |-> <<>>, threw |-> FALSE]
  ELSE IF rows[i].trackName = <<>> \/ rows[i].lastPlayed = 0
       THEN appleRows(impl, rows, i + 1, now)
       ELSE LET r    == appleRow(impl, rows[i], now)
                rest == appleRows(impl, rows, i + 1, now)
            IN [events |-> r.event \o rest.events, threw |-> r.threw \/ rest.threw]

\* parseFile without the try/catch around JSON.parse and data.map
parseFile_NoCatch(impl, file, now) ==
  LET a == adapterOf(impl, file.name)
  IN IF a = "spotify"
     THEN IF file.json = "array"
          THEN [events |-> [i \in DOMAIN file.records |->
                              [file.records[i] EXCEPT !.source = "spotify"]],
                threw |-> FALSE]
          ELSE [events |-> <<>>, threw |-> TRUE]
     ELSE IF a = "apple" THEN appleRows(impl, file.rows, 1, now)
     ELSE [events |-> <<>>, threw |-> FALSE]

\* the body of the callback of one file after its text arrived:
\* [events |-> what it adds to allProcessedData, threw |-> it rejects]
parseFile(impl, file, now) ==
  LET a == adapterOf(impl, file.name)
  IN IF a = "spotify"
     THEN IF file.json = "array"
          THEN [events |-> [i \in DOMAIN file.records |->
                              [file.records[i] EXCEPT !.source = "spotify"]],
                threw |-> FALSE]
          ELSE [events |-> <<>>, threw |-> FALSE]   \* caught and logged
     ELSE IF a = "apple" THEN appleRows(impl, file.rows, 1, now)
     ELSE [events |-> <<>>, threw |-> FALSE]

(***************************************************************************)
(* streamingProcessor.processFiles: what follows Promise.all               *)
(***************************************************************************)
TopTracks == 250

Placeholder == [trackName |-> <<"U","n","k","n","o","w","n">>, playCount |-> 0]

\* _.maxBy(artistSongs, 'playCount'): the first element with the largest value
maxBy(songs) ==
  songs[CHOOSE i \in DOMAIN songs :
          /\ \A j \in DOMAIN songs : songs[j].playCount <= songs[i].playCount
          /\ \A j \in 1..(i - 1) : songs[j].playCount < songs[i].playCount]

RECURSIVE artistPlays(_, _, _)
artistPlays(artistSongs, playHistory, i) ==
  IF i > Len(artistSongs) THEN <<>>
  ELSE HistoryOf(playHistory, artistSongs[i].key)
         \o artistPlays(artistSongs, playHistory, i + 1)

\* the body of the map over Object.values(stats.artists)
artistRow(stats, artist, now) ==
  LET artistSongs == SelectSeq(stats.trackMap, LAMBDA song : song.artist = artist.name)
      streaks     == calculateArtistStreaks(artistPlays(artistSongs, stats.playHistory, 1), now)
  IN [name |-> artist.name, totalPlayed |-> artist.totalPlayed,
      playCount |-> artist.playCount, firstListen |-> artist.firstListen,
      mostPlayedSong |-> IF artistSongs = <<>> THEN Placeholder ELSE maxBy(artistSongs),
      longestStreak |-> streaks.longestStreak,
      currentStreak |-> streaks.currentStreak,
      streakStart |-> streaks.streakStart, streakEnd |-> streaks.streakEnd,
      threw |-> streaks.threw]

sortedArtists(stats, now) ==
  LET rows == [i \in DOMAIN stats.artists |-> artistRow(stats, stats.artists[i], now)]
  IN orderBy(rows, [i \in DOMAIN rows |-> <<0 - rows[i].totalPlayed>>])

sortedAlbums(stats) ==
  LET rows == [i \in DOMAIN stats.albums |->
                 [stats.albums[i] EXCEPT !.trackCount = Cardinality(@)]]
  IN orderBy(rows, [i \in DOMAIN rows |-> <<0 - rows[i].totalPlayed>>])

sortedSongs(impl, stats) ==
  LET songs == stats.trackMap
      keys  == [i \in DOMAIN songs |->
                  IF impl = "adapter" THEN <<0 - songs[i].totalPlayed>>
                  ELSE <<0 - songs[i].playCount>>]
  IN slice(orderBy(songs, keys), TopTracks)

Rejected(err) ==
  [outcome |-> "rejected", error |-> err, stats |-> <<>>, topArtists |-> <<>>,
   topAlbums |-> <<>>, processedTracks |-> <<>>, songsByYear |-> <<>>,
   briefObsessions |-> <<>>, rawPlayData |-> <<>>]

\* the object processFiles resolves with, unless a streak computation threw
resultOf(impl, files, allProcessedData, stats, artists) ==
  IF \E i \in DOMAIN artists : artists[i].threw THEN Rejected("exception")
  ELSE [outcome |-> "returned", error |-> "none",
        stats |->
          [totalFiles |-> Len(files),
           totalEntries |-> Len(allProcessedData),
           processedSongs |-> stats.processedSongs,
           nullTrackNames |->
             Cardinality({i \in DOMAIN allProcessedData :
                            allProcessedData[i].track = <<>>}),
           skippedEntries |-> 0,
           shortPlays |-> stats.shortPlays,
           totalListeningTime |-> stats.totalListeningTime],
        topArtists |-> artists,
        topAlbums |-> sortedAlbums(stats),
        processedTracks |-> sortedSongs(impl, stats),
        songsByYear |->
          calculateSongsByYear(stats.trackMap, stats.playHistory),
        briefObsessions |->
          calculateBriefObsessions(stats.trackMap, stats.playHistory).out,
        rawPlayData |-> allProcessedData]

\* what follows calculatePlayStats
afterStats(impl, files, allProcessedData, stats, now) ==
  IF stats.threw THEN Rejected("exception")
  ELSE resultOf(impl, files, allProcessedData, stats, sortedArtists(stats, now))

\* the synchronous rest of processFiles once every callback has resolved
afterReads(impl, files, allProcessedData, now) ==
  IF impl = "rankings" /\ Len(allProcessedData) = 0 THEN Rejected("noValidData")
  ELSE afterStats(impl, files, allProcessedData,
                  calculatePlayStats(impl, allProcessedData), now)

(***************************************************************************)
(* Inputs of the model                                                     *)
(***************************************************************************)
MaxEntries == 3
MaxStamps == 4
MaxObsEntries == 5
MaxFiles == 2

SeqsUpTo(S, n) == UNION {[1..k -> S] : k \in 0..n}

Ab == <<"A","b">>
AbLower == <<"a","b">>
Cd == <<"C","d">>
ArtistX == <<"X">>
ArtistXLower == <<"x">>
Lp == <<"L","p">>

\* midnight UTC of the k-th day after 2023-12-30, plus h hours
Day0 == daysFromCivil(<<2023, 12, 30>>)
T(k, h) == (Day0 + k) * DayLen + h

Ev(track, artist, album, ms, ts, source) ==
  [track |-> track, artist |-> artist, album |-> album, ms |-> ms, ts |-> ts,
   source |-> source]

\* canonical play events for calculatePlayStats: same track under display
\* variants, short plays with and without a name, a nameless long play,
\* missing artist and album
StatsPool ==
  { Ev(Ab, ArtistX, Lp, 200000, T(1, 0), "spotify"),
    Ev(Ab, ArtistX, Lp, 250000, T(0, 0), "spotify"),
    Ev(AbLower, ArtistX, <<>>, 30000, T(2, 0), "apple_music"),
    Ev(Ab, ArtistX, Lp, 29999, T(1, 0), "spotify"),
    Ev(<<>>, <<>>, <<>>, 10000, T(1, 0), "spotify"),
    Ev(<<>>, <<>>, <<>>, 200000, T(2, 0), "spotify"),
    Ev(Cd, <<>>, Lp, 200000, T(0, 0), "spotify"),
    Ev(Ab, ArtistXLower, Lp, 200000, T(3, 0), "spotify") }

\* play times: two on 2023-12-30, then 12-31, 2024-01-01, 01-03, 01-04
StampPool == { T(0, 0), T(0, 23), T(1, 0), T(2, 0), T(4, 0), T(5, 0) }

\* evaluation times: before, on the day of, one and two days after the
\* latest play time
NowPool == { T(2, 12), T(5, 1), T(6, 23), T(7, 0) }

\* plays of one track under two display names, at the two ends of a
\* seven-day window and a day after it
ObsPool ==
  { Ev(n, ArtistX, Lp, 200000, t, "spotify") :
      n \in {Ab, AbLower}, t \in {T(0, 0), T(7, 0), T(8, 0)} }

NameHistory1 == StreamingHistoryCS \o <<"_","1">> \o DotJson
NameEndsong  == Endsong \o <<"_","0">> \o DotJson
NameApple    == <<"A","p","p","l","e"," ","M","u","s","i","c">> \o DotCsv
NameNotes    == <<"n","o","t","e","s",".","t","x","t">>

File(name, json, records, rows) ==
  [name |-> name, json |-> json, records |-> records, rows |-> rows]

Row(trackName, lastPlayed, userInitiated) ==
  [trackName |-> trackName, lastPlayed |-> lastPlayed, userInitiated |-> userInitiated]

\* files of canonical events
FilePool ==
  { File(NameHistory1, "array",
         << Ev(Ab, ArtistX, Lp, 200000, T(1, 0), "none"),
            Ev(Ab, ArtistX, Lp, 250000, T(0, 0), "none") >>, <<>>),
    File(NameHistory1, "array",
         << Ev(Ab, ArtistX, Lp, 10000, T(1, 0), "none") >>, <<>>),
    File(NameHistory1, "array", <<>>, <<>>),
    File(NameHistory1, "invalid", <<>>, <<>>),
    File(NameHistory1, "notArray", <<>>, <<>>),
    File(NameEndsong, "array",
         << Ev(AbLower, ArtistX, <<>>, 30000, T(2, 0), "none") >>, <<>>),
    File(NameNotes, "array",
         << Ev(Cd, ArtistX, Lp, 200000, T(0, 0), "none") >>, <<>>),
    File(NameApple, "invalid", <<>>,
         << Row(ArtistX \o DashSep \o Ab, T(1, 12), TRUE),
            Row(Cd \o CommaSep \o ArtistX, T(2, 12), FALSE) >>) }

\* files with malformed records: no timestamp, a name that is not a
\* string, no ms_played
MalformedPool ==
  { File(NameHistory1, "array",
         << Ev(Ab, ArtistX, Lp, 200000, NaN, "none") >>, <<>>),
    File(NameHistory1, "array",
         << Ev(NonString, ArtistX, Lp, 200000, T(0, 0), "none") >>, <<>>),
    File(NameHistory1, "array",
         << Ev(Cd, NonString, Lp, 200000, T(0, 0), "none") >>, <<>>),
    File(NameHistory1, "array",
         << Ev(Cd, ArtistX, Lp, NaN, T(0, 0), "none") >>, <<>>) }

(***************************************************************************)
(* State                                                                   *)
(***************************************************************************)
VARIABLES
  impl,              \* which copy of the engine runs
  now,               \* the clock read by new Date()
  pc,                \* position of the running function
  idx,               \* loop index of the running function
  files,             \* processFiles: the batch
  pending,           \* processFiles: files whose callback has not run
  order,             \* processFiles: files in the order their callbacks ran
  readFailed,        \* processFiles: a callback has thrown
  allProcessedData,  \* processFiles: the shared event list
  result,            \* processFiles: what the call settles with
  entries,           \* calculatePlayStats: its argument
  stats,             \* calculatePlayStats: its accumulators
  timestamps,        \* calculateArtistStreaks: its argument
  days,              \* calculateArtistStreaks: the sorted unique days
  streak,            \* calculateArtistStreaks: loop state, then the result
  obsessions,        \* calculateBriefObsessions: [out, playHistory]
  args,              \* a function called on its own: its arguments
  ret,               \* a function called on its own: what it returned
  ui,                \* SpotifyAnalyzer: the component's state (useState)
  calls              \* SpotifyAnalyzer: the invocations of its processFiles

vars == <<impl, now, pc, idx, files, pending, order, readFailed,
          allProcessedData, result, entries, stats, timestamps, days, streak,
          obsessions, args, ret, ui, calls>>

NoResult == [outcome |-> "none"]

filesVars == <<files, pending, order, readFailed, allProcessedData, result>>
statsVars == <<entries, stats>>
streakVars == <<timestamps, days, streak>>

FilesIdle ==
  /\ files = <<>> /\ pending = {} /\ order = <<>> /\ readFailed = FALSE
  /\ allProcessedData = <<>> /\ result = NoResult

StatsIdle == entries = <<>> /\ stats = EmptyStats

StreakIdle == timestamps = <<>> /\ days = <<>> /\ streak = StreakInit

ObsIdle == obsessions = [out |-> <<>>, playHistory |-> <<>>]

pureVars == <<args, ret>>

PureIdle == args = <<>> /\ ret = <<>>

uiVars == <<ui, calls>>

\* the initial values of the useState hooks that processFiles sets
InitialUi ==
  [stats |-> Null, topArtists |-> <<>>, topAlbums |-> <<>>,
   processedData |-> <<>>, songsByYear |-> <<>>, briefObsessions |-> <<>>,
   rawPlayData |-> <<>>, uploadedFiles |-> <<>>, isProcessing |-> FALSE,
   error |-> "null", activeTab |-> "upload"]

UiIdle == ui = InitialUi /\ calls = <<>>

(***************************************************************************)
(* processFiles                                                            *)
(***************************************************************************)
InitFiles(pool) ==
  /\ impl \in Impls
  /\ now \in {T(2, 12), T(9, 0)}
  /\ pc = "reading"
  /\ idx = 1
  /\ files \in SeqsUpTo(pool, MaxFiles)
  /\ pending = DOMAIN files
  /\ order = <<>>
  /\ readFailed = FALSE
  /\ allProcessedData = <<>>
  /\ result = NoResult
  /\ StatsIdle /\ StreakIdle /\ ObsIdle /\ PureIdle /\ UiIdle

Init == InitFiles(FilePool)

\* FileCallback that spreads the list as it was when the callback started,
\* before `await file.text()`
FileCallback_Stale(i) ==
  /\ pc = "reading"
  /\ i \in pending
  /\ LET r == parseFile(impl, files[i], now)
     IN /\ allProcessedData' = IF r.threw THEN allProcessedData ELSE r.events
        /\ readFailed' = (readFailed \/ r.threw)
  /\ pending' = pending \ {i}
  /\ order' = Append(order, i)
  /\ UNCHANGED <<pureVars, uiVars, impl, now, pc, idx, files, result, statsVars, streakVars,
                 obsessions>>

\* the callback of file i resumes after `await file.text()` and runs to its
\* end; the callbacks resume in any order
FileCallback(i) ==
  /\ pc = "reading"
  /\ i \in pending
  /\ LET r == parseFile(impl, files[i], now)
     IN /\ allProcessedData' = IF r.threw THEN allProcessedData
                               ELSE allProcessedData \o r.events
        /\ readFailed' = (readFailed \/ r.threw)
  /\ pending' = pending \ {i}
  /\ order' = Append(order, i)
  /\ UNCHANGED <<pureVars, uiVars, impl, now, pc, idx, files, result, statsVars, streakVars,
                 obsessions>>

\* Promise.all settles: with the first rejection, or when every callback
\* has resolved, and the rest of processFiles runs
Finish ==
  /\ pc = "reading"
  /\ pending = {} \/ readFailed
  /\ result' = IF readFailed THEN Rejected("exception")
               ELSE afterReads(impl, files, allProcessedData, now)
  /\ pc' = "done"
  /\ UNCHANGED <<pureVars, uiVars, impl, now, idx, files, pending, order, readFailed,
                 allProcessedData, statsVars, streakVars, obsessions>>

Next ==
  \/ \E i \in DOMAIN files : FileCallback(i)
  \/ Finish

Spec == Init /\ [][Next]_vars

\* the same program on batches that may hold malformed records
InitMalformed == InitFiles(FilePool \cup MalformedPool)

SpecMalformed == InitMalformed /\ [][Next]_vars

(***************************************************************************)
(* calculatePlayStats, one entry at a time                                 *)
(***************************************************************************)
InitStats ==
  /\ impl \in Impls
  /\ now = T(9, 0)
  /\ pc = "stats"
  /\ idx = 1
  /\ entries \in SeqsUpTo(StatsPool, MaxEntries)
  /\ stats = EmptyStats
  /\ FilesIdle /\ StreakIdle /\ ObsIdle /\ PureIdle /\ UiIdle

\* one iteration of entries.forEach
StatsEntry ==
  /\ pc = "stats"
  /\ idx <= Len(entries)
  /\ stats' = ProcessEntry(impl, stats, entries[idx])
  /\ idx' = idx + 1
  /\ UNCHANGED <<pureVars, uiVars, impl, now, pc, entries, filesVars, streakVars, obsessions>>

\* the loop is over: the track map becomes the songs array and the
\* function returns
StatsReturn ==
  /\ pc = "stats"
  /\ idx > Len(entries)
  /\ pc' = "statsDone"
  /\ UNCHANGED <<pureVars, uiVars, impl, now, idx, entries, stats, filesVars, streakVars,
                 obsessions>>

NextStats == StatsEntry \/ StatsReturn

SpecStats == InitStats /\ [][NextStats]_vars

(***************************************************************************)
(* calculateArtistStreaks, one day at a time                               *)
(***************************************************************************)
\* (the function is the same in both copies)
InitStreaks ==
  /\ impl = "rankings"
  /\ now \in NowPool
  /\ pc = "streakDays"
  /\ idx = 1
  /\ timestamps \in SeqsUpTo(StampPool, MaxStamps)
  /\ days = <<>>
  /\ streak = StreakInit
  /\ FilesIdle /\ StatsIdle /\ ObsIdle /\ PureIdle /\ UiIdle

\* the unique, sorted days are computed
StreakDays ==
  /\ pc = "streakDays"
  /\ days' = uniqueDays(timestamps)
  /\ pc' = "streakLoop"
  /\ UNCHANGED <<pureVars, uiVars, impl, now, idx, timestamps, streak, filesVars, statsVars,
                 obsessions>>

\* one iteration of the loop over days
StreakIteration ==
  /\ pc = "streakLoop"
  /\ idx <= Len(days)
  /\ streak' = StreakStep(streak, days, idx)
  /\ idx' = idx + 1
  /\ UNCHANGED <<pureVars, uiVars, impl, now, pc, timestamps, days, filesVars, statsVars,
                 obsessions>>

\* the clock is read and the result returned
StreakReturn ==
  /\ pc = "streakLoop"
  /\ idx > Len(days)
  /\ streak' = StreakResult(streak, days, now)
  /\ pc' = "streakDone"
  /\ UNCHANGED <<pureVars, uiVars, impl, now, idx, timestamps, days, filesVars, statsVars,
                 obsessions>>

NextStreaks == StreakDays \/ StreakIteration \/ StreakReturn

SpecStreaks == InitStreaks /\ [][NextStreaks]_vars

(***************************************************************************)
(* calculateBriefObsessions on the output of calculatePlayStats            *)
(***************************************************************************)
InitObsessions ==
  /\ impl \in Impls
  /\ now = T(9, 0)
  /\ pc = "obsStats"
  /\ idx = 1
  /\ entries \in SeqsUpTo(ObsPool, MaxObsEntries)
  /\ stats = EmptyStats
  /\ obsessions = [out |-> <<>>, playHistory |-> <<>>]
  /\ FilesIdle /\ StreakIdle /\ PureIdle /\ UiIdle

\* calculatePlayStats(entries) runs; its songs and histories are handed on
ObsStats ==
  /\ pc = "obsStats"
  /\ stats' = calculatePlayStats(impl, entries)
  /\ obsessions' = [out |-> <<>>, playHistory |-> stats'.playHistory]
  /\ pc' = "obsLoop"
  /\ UNCHANGED <<pureVars, uiVars, impl, now, idx, entries, filesVars, streakVars>>

\* one iteration of songs.forEach
ObsSong ==
  /\ pc = "obsLoop"
  /\ idx <= Len(stats.trackMap)
  /\ obsessions' = ObsessionStep(obsessions, stats.trackMap[idx])
  /\ idx' = idx + 1
  /\ UNCHANGED <<pureVars, uiVars, impl, now, pc, entries, stats, filesVars, streakVars>>

\* _.orderBy(...).slice(0, 100)
ObsReturn ==
  /\ pc = "obsLoop"
  /\ idx > Len(stats.trackMap)
  /\ obsessions' = calculateBriefObsessions(stats.trackMap, stats.playHistory)
  /\ pc' = "obsDone"
  /\ UNCHANGED <<pureVars, uiVars, impl, now, idx, entries, stats, filesVars, streakVars>>

NextObsessions == ObsStats \/ ObsSong \/ ObsReturn

SpecObsessions == InitObsessions /\ [][NextObsessions]_vars

(***************************************************************************)
(* Properties of calculatePlayStats (SpecStats)                            *)
(***************************************************************************)
\* an event the aggregation counts: it has a track name and is no short play
Included(e) == e.track # <<>> /\ e.ms >= ShortPlayMs

\* the match key of an event, with the default artist name
KeyOf(e) ==
  createMatchKey(impl, e.track, IF e.artist = <<>> THEN UnknownArtist ELSE e.artist)

IncludedIdx == {i \in DOMAIN entries : Included(entries[i])}

\* the entries counted into the track with match key mk
Group(mk) == {i \in IncludedIdx : KeyOf(entries[i]) = mk}

RECURSIVE SumMs(_)
SumMs(S) ==
  IF S = {} THEN 0
  ELSE LET i == CHOOSE x \in S : TRUE IN entries[i].ms + SumMs(S \ {i})

\* C1: an event with ms_played < 30000 changes no track, artist or album
\* aggregate, no total and no play history; it adds exactly 1 to shortPlays,
\* with or without a track name.
C1_ShortPlayOnlyTallied ==
  [][ (pc = "stats" /\ idx <= Len(entries) /\ entries[idx].ms < ShortPlayMs)
        => /\ stats'.shortPlays = stats.shortPlays + 1
           /\ stats'.trackMap = stats.trackMap
           /\ stats'.artists = stats.artists
           /\ stats'.albums = stats.albums
           /\ stats'.playHistory = stats.playHistory
           /\ stats'.totalListeningTime = stats.totalListeningTime
           /\ stats'.processedSongs = stats.processedSongs ]_vars

\* a nameless short play has been tallied after a counted event
C1_Witness ==
  /\ pc = "stats" /\ idx = 3
  /\ Included(entries[1])
  /\ entries[2].track = <<>> /\ entries[2].ms < ShortPlayMs
  /\ stats.shortPlays = 1 /\ stats.processedSongs = 1

\* C2: after calculatePlayStats there is exactly one track per match key of
\* the included events; its playCount is the number of those events and its
\* totalPlayed the sum of their ms_played.
C2_OneTrackPerMatchKey ==
  pc = "statsDone" =>
    /\ \A i \in IncludedIdx :
         \E j \in DOMAIN stats.trackMap : stats.trackMap[j].mk = KeyOf(entries[i])
    /\ \A j, k \in DOMAIN stats.trackMap :
         stats.trackMap[j].mk = stats.trackMap[k].mk => j = k
    /\ \A j \in DOMAIN stats.trackMap :
         LET t == stats.trackMap[j]
         IN /\ Group(t.mk) # {}
            /\ t.playCount = Cardinality(Group(t.mk))
            /\ t.totalPlayed = SumMs(Group(t.mk))

\* two tracks, one of them merged from events under two display names
C2_Witness ==
  /\ pc = "statsDone"
  /\ Len(stats.trackMap) = 2
  /\ \E j \in DOMAIN stats.trackMap :
       /\ stats.trackMap[j].playCount = 2
       /\ \E a, b \in Group(stats.trackMap[j].mk) : entries[a].track # entries[b].track

\* the totals the order of the events must not change
Totals(st) ==
  [tracks  |-> {<<st.trackMap[j].mk, st.trackMap[j].totalPlayed,
                  st.trackMap[j].playCount>> : j \in DOMAIN st.trackMap},
   artists |-> {<<st.artists[j].name, st.artists[j].totalPlayed,
                  st.artists[j].playCount, st.artists[j].firstListen>> :
                  j \in DOMAIN st.artists},
   albums  |-> {<<st.albums[j].name, st.albums[j].artist,
                  st.albums[j].totalPlayed, st.albums[j].playCount,
                  Cardinality(st.albums[j].trackCount),
                  st.albums[j].firstListen>> : j \in DOMAIN st.albums}]

C7_HistoryMatchesPlayCount ==
  pc = "statsDone" =>
    \A j \in DOMAIN stats.trackMap :
      LET t == stats.trackMap[j]
          h == HistoryOf(stats.playHistory, t.key)
      IN /\ Len(h) = t.playCount
         /\ \A v \in {entries[i].ts : i \in DOMAIN entries} :
              Cardinality({k \in DOMAIN h : h[k] = v})
                = Cardinality({i \in Group(t.mk) : entries[i].ts = v})

(***************************************************************************)
(* Properties of calculateArtistStreaks (SpecStreaks)                      *)
(***************************************************************************)
\* the calendar days (days since the epoch) on which a play falls
DaySet == {timestamps[i] \div DayLen : i \in DOMAIN timestamps}

\* every day from a to b has a play
IsRun(a, b) == a <= b /\ \A d \in a..b : d \in DaySet

Runs == {r \in DaySet \X DaySet : IsRun(r[1], r[2])}

LongestRunLen ==
  LET r == CHOOSE x \in Runs : \A y \in Runs : y[2] - y[1] <= x[2] - x[1]
  IN r[2] - r[1] + 1

\* the earliest of the runs of the largest length
EarliestLongestRun ==
  CHOOSE x \in Runs :
    /\ x[2] - x[1] + 1 = LongestRunLen
    /\ \A y \in Runs : y[2] - y[1] + 1 = LongestRunLen => x[1] <= y[1]

LastDay == CHOOSE d \in DaySet : \A e \in DaySet : e <= d

\* the length of the run that ends on the last day
TrailingRunLen ==
  LET r == CHOOSE x \in Runs :
             x[2] = LastDay /\ \A y \in Runs : y[2] = LastDay => x[1] <= y[1]
  IN r[2] - r[1] + 1

\* C9: for a non-empty list, longestStreak is the length of the longest run
\* of consecutive calendar days, streakStart and streakEnd are the first and
\* last day of the earliest such run, streakEnd - streakStart being
\* longestStreak - 1 days.
C9_LongestStreak ==
  (pc = "streakDone" /\ timestamps # <<>>) =>
    /\ streak.longestStreak = LongestRunLen
    /\ streak.streakStart = EarliestLongestRun[1] * DayLen
    /\ streak.streakEnd = EarliestLongestRun[2] * DayLen
    /\ streak.streakEnd - streak.streakStart = (streak.longestStreak - 1) * DayLen

\* two runs of two days each, the second after a gap
C9_Witness ==
  /\ pc = "streakDone"
  /\ Cardinality(DaySet) = 4
  /\ streak.longestStreak = 2
  /\ streak.streakEnd < LastDay * DayLen

\* C10: currentStreak is the length of the trailing run when the last
\* listening day is at most one day before the day of the evaluation time,
\* 0 when it is further back and 0 for an empty list; it never exceeds
\* longestStreak.
C10_CurrentStreak ==
  pc = "streakDone" =>
    /\ timestamps = <<>> => streak.currentStreak = 0
    /\ timestamps # <<>> =>
         streak.currentStreak =
           IF now \div DayLen - LastDay <= 1 THEN TrailingRunLen ELSE 0
    /\ streak.currentStreak <= streak.longestStreak

\* the last listening day is the day before the evaluation and ends a run
\* shorter than the longest one
C10_Witness ==
  /\ pc = "streakDone"
  /\ timestamps # <<>>
  /\ now \div DayLen - LastDay = 1
  /\ streak.currentStreak = 1
  /\ streak.longestStreak = 3

(***************************************************************************)
(* Properties of calculateBriefObsessions (SpecObsessions)                 *)
(***************************************************************************)
\* the counted plays of the track with match key mk that fall in the seven
\* days up to time hi
InWeek(mk, hi) ==
  {i \in Group(mk) : hi - WeekDays * DayLen <= entries[i].ts /\ entries[i].ts <= hi}

Listed(mk) == \E k \in DOMAIN obsessions.out : obsessions.out[k].song.mk = mk

\* C8: a track whose counted plays are exactly 5, all inside one 7-day
\* window, is listed with playsInWeek = 5 whatever display names the plays
\* carry; a track with at most 4 plays in every trailing 7-day window is
\* not listed.
C8_FivePlaysQualify ==
  pc = "obsDone" =>
    \A j \in DOMAIN stats.trackMap :
      LET mk == stats.trackMap[j].mk
      IN /\ ( /\ Cardinality(Group(mk)) = 5
              /\ \E i \in Group(mk) : InWeek(mk, entries[i].ts) = Group(mk) )
            => \E k \in DOMAIN obsessions.out :
                 /\ obsessions.out[k].song.mk = mk
                 /\ obsessions.out[k].intensePeriod.playsInWeek = 5
         /\ (\A i \in Group(mk) : Cardinality(InWeek(mk, entries[i].ts)) <= 4)
            => ~Listed(mk)

(***************************************************************************)
(* Properties of processFiles (Spec, SpecMalformed)                        *)
(***************************************************************************)
\* a file that matches no adapter, or a Spotify-named .json file whose
\* content is not a parseable JSON array
BadFile(f) ==
  \/ adapterOf(impl, f.name) = "none"
  \/ adapterOf(impl, f.name) = "spotify" /\ f.json # "array"

\* the events of the other files, in the order their callbacks ran
RECURSIVE EventsOfOthers(_)
EventsOfOthers(k) ==
  IF k > Len(order) THEN <<>>
  ELSE (IF BadFile(files[order[k]]) THEN <<>>
        ELSE parseFile(impl, files[order[k]], now).events) \o EventsOfOthers(k + 1)

\* a record the data model rules out: no time, no play time, or a name
\* that is not a string
Malformed(e) ==
  e.ts = NaN \/ e.ms = NaN \/ e.track = NonString \/ e.artist = NonString

\* C5: a batch that yields no event makes processFiles reject with the
\* 'no valid data' error; a batch with at least one event does not.
C5_NoDataRejects ==
  pc = "done" =>
    (Len(allProcessedData) = 0
       <=> (result.outcome = "rejected" /\ result.error = "noValidData"))

\* C6 as stated: with a bad file in the batch, processFiles returns a
\* result built from exactly the events of the other files.
C6_BadFileNoError ==
  (pc = "done" /\ \E i \in DOMAIN files : BadFile(files[i])) =>
    /\ result.outcome = "returned"
    /\ result.rawPlayData = EventsOfOthers(1)

\* C6 amended: a bad file adds no event and no error of its own.  The call
\* settles as it does on the other files alone: it returns a result built
\* from exactly their events, or rejects as it would without the file (the
\* "rankings" copy with 'no valid data' when the other files yield no event);
\* it returns whenever the other files yield well-formed events.
C6_BadFileNoErrorOfItsOwn ==
  (pc = "done" /\ \E i \in DOMAIN files : BadFile(files[i])) =>
    LET others == EventsOfOthers(1)
        alone  == afterReads(impl, files, others, now)
    IN /\ allProcessedData = others
       /\ result = alone
       /\ result.outcome = "returned" =>
            /\ result.rawPlayData = others
            /\ result.stats.totalEntries = Len(others)
       /\ (impl = "rankings" /\ others = <<>>) => result.error = "noValidData"
       /\ (impl = "adapter" /\ others = <<>>) => result.outcome = "returned"
       /\ (others # <<>> /\ \A k \in DOMAIN others : ~Malformed(others[k]))
            => result.outcome = "returned"

\* a batch of an unparseable file and a file with events has returned
C6_Witness ==
  /\ pc = "done"
  /\ \E i \in DOMAIN files :
       adapterOf(impl, files[i].name) = "spotify" /\ files[i].json = "invalid"
  /\ result.outcome = "returned"
  /\ Len(result.rawPlayData) >= 1

\* C4: no event makes processing abort; a malformed event is skipped and
\* the other events are aggregated.
C4_NoEventAborts ==
  pc = "done" =>
    /\ result.error # "exception"
    /\ result.outcome = "returned" =>
         result.stats.processedSongs =
           Cardinality({i \in DOMAIN allProcessedData :
                          /\ ~Malformed(allProcessedData[i])
                          /\ ~IsSkipped(allProcessedData[i])})

(***************************************************************************)
(* createMatchKey called on its own                                        *)
(***************************************************************************)
JustDroppedInTitle ==
  <<"J","u","s","t"," ","D","r","o","p","p","e","d"," ","I","n">>
JustDroppedInLong == JustDroppedInTitle \o <<" ","(","T","o"," ","S","e","e",")">>
KennyRogersName == <<"K","e","n","n","y"," ","R","o","g","e","r","s">>
KennyRogersBand == KennyRogersName \o <<" ","&"," ","C","o">>

\* titles and artist names: plain, in another case, with a qualifier in
\* parentheses, with punctuation, with a letter outside ASCII, hitting the
\* override, missing
TrackNamePool ==
  { Ab, AbLower, Cd, <<>>,
    Ab \o <<" ","(","f","e","a","t","."," ","X",")">>,
    Ab \o <<" ","(","R","e","m","i","x",")">>,
    <<"A","-","b","!">>,
    <<"A", Eszett>>,
    JustDroppedInTitle, JustDroppedInLong }

ArtistNamePool ==
  { ArtistX, ArtistXLower, <<>>, KennyRogersName, KennyRogersBand }

InitKeys ==
  /\ impl \in Impls
  /\ now = T(9, 0)
  /\ pc = "key"
  /\ idx = 1
  /\ args \in [trackName : TrackNamePool, artistName : ArtistNamePool]
  /\ ret = <<>>
  /\ FilesIdle /\ StatsIdle /\ StreakIdle /\ ObsIdle /\ UiIdle

KeyCall ==
  /\ pc = "key"
  /\ ret' = createMatchKey(impl, args.trackName, args.artistName)
  /\ pc' = "keyed"
  /\ UNCHANGED <<impl, now, idx, args, filesVars, statsVars, streakVars,
                 obsessions, uiVars>>

NextKeys == KeyCall

SpecKeys == InitKeys /\ [][NextKeys]_vars

\* C11: the match key of a title and an artist name is the match key of
\* their upper-case forms
C11_KeyCaseInsensitive ==
  pc = "keyed" =>
    ret = createMatchKey(impl, toUpperCase(args.trackName),
                         toUpperCase(args.artistName))

(***************************************************************************)
(* calculatePlayStats on events whose names test the identity of tracks,   *)
(* albums and artists                                                      *)
(***************************************************************************)
MaxIdEntries == 2

AlbumAB == <<"a","-","b">>
AlbumA == <<"a">>
ArtistC == <<"c">>
ArtistBC == <<"b","-","c">>

\* the override pair under two spellings; two (album, artist) pairs that
\* differ and contain "-"; one album pair under two tracks; one album name
\* under two artists; a missing album
IdentityPool ==
  { Ev(JustDroppedInTitle, KennyRogersName, Lp, 200000, T(0, 0), "spotify"),
    Ev(JustDroppedInLong, KennyRogersBand, Lp, 200000, T(1, 0), "spotify"),
    Ev(Ab, ArtistC, AlbumAB, 200000, T(2, 0), "spotify"),
    Ev(Cd, ArtistBC, AlbumA, 200000, T(1, 0), "spotify"),
    Ev(Ab, ArtistX, Lp, 200000, T(3, 0), "spotify"),
    Ev(Cd, ArtistX, Lp, 200000, T(1, 0), "spotify"),
    Ev(Ab, ArtistXLower, Lp, 200000, T(0, 0), "spotify"),
    Ev(Ab, ArtistX, <<>>, 200000, T(2, 0), "apple_music") }

InitIdentity ==
  /\ impl \in Impls
  /\ now = T(9, 0)
  /\ pc = "stats"
  /\ idx = 1
  /\ entries \in SeqsUpTo(IdentityPool, MaxIdEntries)
  /\ stats = EmptyStats
  /\ FilesIdle /\ StreakIdle /\ ObsIdle /\ PureIdle /\ UiIdle

SpecIdentity == InitIdentity /\ [][NextStats]_vars

\* the event's names hit the override pair, case-insensitively
HitsOverride(e) ==
  /\ includes(toLowerCase(e.track), JustDroppedIn)
  /\ includes(toLowerCase(e.artist), KennyRogers)

\* C12: two included events whose names contain the override pair have the
\* same match key and are counted into one track aggregate
C12_OverrideMerges ==
  pc = "statsDone" =>
    \A i, j \in IncludedIdx :
      HitsOverride(entries[i]) /\ HitsOverride(entries[j]) =>
        /\ KeyOf(entries[i]) = KeyOf(entries[j])
        /\ Cardinality({k \in DOMAIN stats.trackMap :
                          stats.trackMap[k].mk \in
                            {KeyOf(entries[i]), KeyOf(entries[j])}}) = 1

(***************************************************************************)
(* processFiles and the order in which the file callbacks complete         *)
(***************************************************************************)
\* the events of the batch in the order of the file list
RECURSIVE EventsInFileOrder(_)
EventsInFileOrder(k) ==
  IF k > Len(files) THEN <<>>
  ELSE parseFile(impl, files[k], now).events \o EventsInFileOrder(k + 1)

\* what of a returned result must not depend on the completion order
Determined(r) ==
  [stats  |-> r.stats,
   tracks |-> {[mk |-> r.processedTracks[j].mk,
                key |-> r.processedTracks[j].key,
                trackName |-> r.processedTracks[j].trackName,
                artist |-> r.processedTracks[j].artist,
                albumName |-> r.processedTracks[j].albumName,
                totalPlayed |-> r.processedTracks[j].totalPlayed,
                playCount |-> r.processedTracks[j].playCount] :
                j \in DOMAIN r.processedTracks},
   songsByYear |-> r.songsByYear,
   briefObsessions |-> r.briefObsessions]

\* C13: whatever order the file callbacks complete in, a returned result has
\* the totals, track aggregates, year rankings and brief obsessions of the
\* batch processed in the order of the file list
C13_ReadOrderDeterministic ==
  (pc = "done" /\ result.outcome = "returned") =>
    Determined(result)
      = Determined(afterReads(impl, files, EventsInFileOrder(1), now))

(***************************************************************************)
(* SpotifyAnalyzer: the upload input and the component's processFiles.     *)
(* An invocation is [files, phase, overlaps]:                              *)
(*   "scheduled"  onChange ran, its 100 ms timer is pending                *)
(*   "yielded"    processFiles awaits its 0 ms timer                       *)
(*   "awaiting"   processFiles awaits spotifyApi.processFiles              *)
(*   "done"       the try / catch / finally has run                        *)
(* overlaps: an earlier invocation was still in flight when this one       *)
(* entered processFiles.  Timers fire in the order they were set; the      *)
(* engine's promises settle in any order.                                  *)
(***************************************************************************)
MaxCalls == 2

\* the events of a batch, in the order of its file list
RECURSIVE batchEvents(_, _, _, _)
batchEvents(copy, fileList, clock, k) ==
  IF k > Len(fileList) THEN <<>>
  ELSE parseFile(copy, fileList[k], clock).events
         \o batchEvents(copy, fileList, clock, k + 1)

\* spotifyApi.processFiles(fileList): what its promise settles with
spotifyApiProcessFiles(copy, fileList, clock) ==
  afterReads(copy, fileList, batchEvents(copy, fileList, clock, 1), clock)

fileNames(fileList) == [k \in DOMAIN fileList |-> fileList[k].name]

\* the setters of the try block, the catch block, and the finally block
settle(u, fileList, results) ==
  IF results.outcome = "returned"
  THEN [u EXCEPT !.stats = results.stats,
                 !.topArtists = results.topArtists,
                 !.topAlbums = results.topAlbums,
                 !.processedData = results.processedTracks,
                 !.songsByYear = results.songsByYear,
                 !.briefObsessions = results.briefObsessions,
                 !.rawPlayData = results.rawPlayData,
                 !.uploadedFiles = fileNames(fileList),
                 !.activeTab = "stats",
                 !.isProcessing = FALSE]
  ELSE [u EXCEPT !.error = results.error, !.isProcessing = FALSE]

UiBatches ==
  { <<>>,
    << File(NameNotes, "array", <<>>, <<>>) >>,
    << File(NameHistory1, "array",
            << Ev(Ab, ArtistX, Lp, 200000, T(1, 0), "none") >>, <<>>) >>,
    << File(NameHistory1, "array",
            << Ev(Cd, ArtistX, Lp, 250000, T(0, 0), "none"),
               Ev(Cd, ArtistX, Lp, 10000, T(2, 0), "none") >>, <<>>) >> }

InFlight(c) == c.phase \in {"yielded", "awaiting"}

InitUi ==
  /\ impl \in Impls
  /\ now = T(9, 0)
  /\ pc = "ui"
  /\ idx = 1
  /\ ui = InitialUi
  /\ calls = <<>>
  /\ FilesIdle /\ StatsIdle /\ StreakIdle /\ ObsIdle /\ PureIdle

\* onChange of the file input
UploadChange(fileList) ==
  /\ pc = "ui"
  /\ Len(calls) < MaxCalls
  /\ ui' = [ui EXCEPT !.isProcessing = TRUE]
  /\ calls' = Append(calls, [files |-> fileList, phase |-> "scheduled",
                             overlaps |-> FALSE])
  /\ UNCHANGED <<impl, now, pc, idx, filesVars, statsVars, streakVars,
                 obsessions, pureVars>>

\* the 100 ms timer fires: processFiles runs up to its first await
ProcessFilesEnter(k) ==
  /\ pc = "ui"
  /\ k \in DOMAIN calls
  /\ calls[k].phase = "scheduled"
  /\ \A j \in 1..(k - 1) : calls[j].phase # "scheduled"
  /\ ui' = [ui EXCEPT !.isProcessing = TRUE]
  /\ calls' = [calls EXCEPT ![k].phase = "yielded",
                            ![k].overlaps = \E j \in 1..(k - 1) : InFlight(calls[j])]
  /\ UNCHANGED <<impl, now, pc, idx, filesVars, statsVars, streakVars,
                 obsessions, pureVars>>

\* the 0 ms timer fires: spotifyApi.processFiles is called and awaited
ProcessFilesCall(k) ==
  /\ pc = "ui"
  /\ k \in DOMAIN calls
  /\ calls[k].phase = "yielded"
  /\ \A j \in 1..(k - 1) : calls[j].phase \notin {"scheduled", "yielded"}
  /\ calls' = [calls EXCEPT ![k].phase = "awaiting"]
  /\ UNCHANGED <<ui, impl, now, pc, idx, filesVars, statsVars, streakVars,
                 obsessions, pureVars>>

\* the engine's promise settles: the rest of processFiles runs
ProcessFilesSettle(k) ==
  /\ pc = "ui"
  /\ k \in DOMAIN calls
  /\ calls[k].phase = "awaiting"
  /\ ui' = settle(ui, calls[k].files,
                  spotifyApiProcessFiles(impl, calls[k].files, now))
  /\ calls' = [calls EXCEPT ![k].phase = "done"]
  /\ UNCHANGED <<impl, now, pc, idx, filesVars, statsVars, streakVars,
                 obsessions, pureVars>>

NextUi ==
  \/ \E fileList \in UiBatches : UploadChange(fileList)
  \/ \E k \in DOMAIN calls : ProcessFilesEnter(k)
  \/ \E k \in DOMAIN calls : ProcessFilesCall(k)
  \/ \E k \in DOMAIN calls : ProcessFilesSettle(k)

SpecUi == InitUi /\ [][NextUi]_vars

\* the displayed state a result gives
Shown(u) ==
  [stats |-> u.stats, topArtists |-> u.topArtists, topAlbums |-> u.topAlbums,
   processedData |-> u.processedData, songsByYear |-> u.songsByYear,
   briefObsessions |-> u.briefObsessions, rawPlayData |-> u.rawPlayData,
   uploadedFiles |-> u.uploadedFiles]

\* C14: once two overlapping invocations that both return a result have
\* completed, the displayed state is that of the later invocation
C14_LaterInvocationWins ==
  \A k \in DOMAIN calls : \A j \in 1..(k - 1) :
    ( /\ calls[k].overlaps
      /\ \A c \in DOMAIN calls : calls[c].phase = "done"
      /\ k = Len(calls)
      /\ spotifyApiProcessFiles(impl, calls[j].files, now).outcome = "returned"
      /\ spotifyApiProcessFiles(impl, calls[k].files, now).outcome = "returned" )
    => Shown(ui)
         = Shown(settle(InitialUi, calls[k].files,
                        spotifyApiProcessFiles(impl, calls[k].files, now)))

\* C15: computing the brief obsessions leaves every play history returned by
\* calculatePlayStats as it was, in its encounter order
C15_HistoriesNotMutated ==
  pc \in {"obsLoop", "obsDone"} => obsessions.playHistory = stats.playHistory

(***************************************************************************)
(* calculateSongsByYear called on its own, on songs and histories as       *)
(* calculatePlayStats returns them: one history per song, as long as the   *)
(* song's playCount                                                        *)
(***************************************************************************)
MaxYearSongs == 101

DigitSeq == <<"0","1","2","3","4","5","6","7","8","9">>

\* "t000", "t001", ...
numberedName(i) ==
  <<"t", DigitSeq[((i \div 100) % 10) + 1], DigitSeq[((i \div 10) % 10) + 1],
    DigitSeq[(i % 10) + 1]>>

\* song i of a generated library: 1 to 3 plays
yearSong(i, a) ==
  [mk |-> toLowerCase(numberedName(i)) \o <<"-">> \o ArtistXLower,
   key |-> numberedName(i) \o <<"-">> \o ArtistX,
   trackName |-> numberedName(i), artist |-> ArtistX, albumName |-> Lp,
   totalPlayed |-> 200000 * (1 + ((i * a) % 3)),
   playCount |-> 1 + ((i * a) % 3),
   hasSpotifyData |-> TRUE]

\* its plays: on 2023-12-30 .. 2024-01-02 when split, else all in 2024
yearHistory(i, a, split) ==
  [key |-> numberedName(i) \o <<"-">> \o ArtistX,
   times |-> [j \in 1..(1 + ((i * a) % 3)) |->
                IF split THEN T((i + j) % 4, j) ELSE T(2 + (j % 2), j)]]

yearArgs(n, a, split) ==
  [songs |-> [i \in 1..n |-> yearSong(i, a)],
   songPlayHistory |-> [i \in 1..n |-> yearHistory(i, a, split)]]

\* small libraries under every pattern, and libraries around the cap
YearArgsPool ==
  { yearArgs(n, a, split) : n \in 0..12, a \in 1..4, split \in BOOLEAN }
    \cup { yearArgs(n, 1, split) :
             n \in (MaxYearSongs - 1)..MaxYearSongs, split \in BOOLEAN }

InitYears ==
  /\ impl = "adapter"
  /\ now = T(9, 0)
  /\ pc = "years"
  /\ idx = 1
  /\ args \in YearArgsPool
  /\ ret = <<>>
  /\ FilesIdle /\ StatsIdle /\ StreakIdle /\ ObsIdle /\ UiIdle

YearsCall ==
  /\ pc = "years"
  /\ ret' = calculateSongsByYear(args.songs, args.songPlayHistory)
  /\ pc' = "yearsDone"
  /\ UNCHANGED <<impl, now, idx, args, filesVars, statsVars, streakVars,
                 obsessions, uiVars>>

NextYears == YearsCall

SpecYears == InitYears /\ [][NextYears]_vars

\* the plays of song i of the arguments in the given year
PlaysInYear(i, year) ==
  LET times == args.songPlayHistory[i].times
  IN Cardinality({j \in DOMAIN times : yearOf(times[j]) = year})

KeptIn(L, i) == \E k \in DOMAIN L : L[k].song.key = args.songs[i].key

\* C16: every year's list has at most 100 entries, is in descending order
\* of score, holds no negative score, and leaves out no track that scores
\* strictly higher in that year than a track it keeps
C16_YearListsTopByScore ==
  pc = "yearsDone" =>
    \A y \in DOMAIN ret :
      LET L == ret[y].songs
      IN /\ Len(L) <= 100
         /\ \A k \in 1..(Len(L) - 1) : L[k].scoreSquared >= L[k + 1].scoreSquared
         /\ \A k \in DOMAIN L : L[k].scoreSquared >= 0
         /\ \A i \in DOMAIN args.songs :
              (PlaysInYear(i, ret[y].year) > 0 /\ ~KeptIn(L, i)) =>
                \A k \in DOMAIN L :
                  PlaysInYear(i, ret[y].year) <= L[k].playCount

\* a year with more than 100 tracks was cut to 100, scores differing
C16_Witness ==
  /\ pc = "yearsDone"
  /\ \E y \in DOMAIN ret :
       /\ Len(ret[y].songs) = 100
       /\ \E i \in DOMAIN args.songs :
            PlaysInYear(i, ret[y].year) > 0 /\ ~KeptIn(ret[y].songs, i)
       /\ ret[y].songs[1].scoreSquared > ret[y].songs[100].scoreSquared

(***************************************************************************)
(* processFiles: the year rankings against the events they come from       *)
(***************************************************************************)
\* the counted plays, among the events of the batch, of the track with
\* match key mk in the given year
YearPlays(mk, year) ==
  {i \in DOMAIN allProcessedData :
     LET e == allProcessedData[i]
     IN /\ Included(e)
        /\ createMatchKey(impl, e.track,
                          IF e.artist = <<>> THEN UnknownArtist ELSE e.artist) = mk
        /\ yearOf(e.ts) = year}

EventYears == {yearOf(allProcessedData[i].ts) : i \in DOMAIN allProcessedData}

\* the year-scoped variants of the track with match key mk in a year
VariantsOf(mk, year) ==
  {v \in UNION {Range(result.songsByYear[y].songs) :
                  y \in {z \in DOMAIN result.songsByYear :
                           result.songsByYear[z].year = year}} :
     v.song.mk = mk}

\* C17: for every track and year, the year-scoped variant counts the
\* track's counted plays of that year and carries totalPlayed scaled by
\* yearPlays / playCount; there is no variant for a year without plays
C17_YearVariantCounts ==
  (pc = "done" /\ result.outcome = "returned") =>
    \A j \in DOMAIN result.processedTracks : \A year \in EventYears :
      LET t == result.processedTracks[j]
          n == Cardinality(YearPlays(t.mk, year))
      IN IF n = 0 THEN VariantsOf(t.mk, year) = {}
         ELSE \E v \in VariantsOf(t.mk, year) :
                /\ VariantsOf(t.mk, year) = {v}
                /\ v.playCount = n
                /\ v.totalPlayed[1] * t.playCount
                     = t.totalPlayed * n * v.totalPlayed[2]

(***************************************************************************)
(* calculateBriefObsessions called on its own, on songs and histories as   *)
(* calculatePlayStats returns them                                         *)
(***************************************************************************)
MaxObsSongs == 101

\* song i of a generated library: low .. low + 2 plays
obsSong(i, a, low) ==
  [mk |-> toLowerCase(numberedName(i)) \o <<"-">> \o ArtistXLower,
   key |-> numberedName(i) \o <<"-">> \o ArtistX,
   trackName |-> numberedName(i), artist |-> ArtistX, albumName |-> Lp,
   totalPlayed |-> 200000 * (low + ((i * a) % 3)),
   playCount |-> low + ((i * a) % 3),
   hasSpotifyData |-> TRUE]

\* its plays: one a day, from a first day that depends on the song
obsHistory(i, a, b, low) ==
  [key |-> numberedName(i) \o <<"-">> \o ArtistX,
   times |-> [j \in 1..(low + ((i * a) % 3)) |-> T((((i \div 3) * b) % 3) + j, 0)]]

obsArgs(n, a, b, low) ==
  [songs |-> [i \in 1..n |-> obsSong(i, a, low)],
   songPlayHistory |-> [i \in 1..n |-> obsHistory(i, a, b, low)]]

\* small libraries, with and without tracks below five plays a week, and
\* libraries of qualifying tracks around the cap
ObsArgsPool ==
  { obsArgs(n, a, b, low) : n \in 0..6, a \in 1..3, b \in 0..2, low \in {3, 5} }
    \cup { obsArgs(n, 1, 2, 5) : n \in (MaxObsSongs - 1)..MaxObsSongs }

InitObsRank ==
  /\ impl = "adapter"
  /\ now = T(9, 0)
  /\ pc = "obsRank"
  /\ idx = 1
  /\ args \in ObsArgsPool
  /\ ret = <<>>
  /\ FilesIdle /\ StatsIdle /\ StreakIdle /\ ObsIdle /\ UiIdle

ObsRankCall ==
  /\ pc = "obsRank"
  /\ ret' = calculateBriefObsessions(args.songs, args.songPlayHistory).out
  /\ pc' = "obsRanked"
  /\ UNCHANGED <<impl, now, idx, args, filesVars, statsVars, streakVars,
                 obsessions, uiVars>>

NextObsRank == ObsRankCall

SpecObsRank == InitObsRank /\ [][NextObsRank]_vars

\* the plays of song i within the seven days that end at t
PlaysUpTo(i, t) ==
  LET times == args.songPlayHistory[i].times
  IN Cardinality({j \in DOMAIN times :
                    t - WeekDays * DayLen <= times[j] /\ times[j] <= t})

\* the most plays of song i in such a window, and the start of the
\* earliest window that has them
PeakOf(i) ==
  LET times == Range(args.songPlayHistory[i].times)
      m == CHOOSE c \in {PlaysUpTo(i, t) : t \in times} :
             \A t \in times : PlaysUpTo(i, t) <= c
      e == CHOOSE t \in times :
             /\ PlaysUpTo(i, t) = m
             /\ \A u \in times : PlaysUpTo(i, u) = m => t <= u
  IN [playsInWeek |-> m, weekStart |-> e - WeekDays * DayLen]

Qualifies(i) ==
  /\ args.songs[i].playCount <= 50
  /\ args.songPlayHistory[i].times # <<>>
  /\ PeakOf(i).playsInWeek >= 5

RanksBefore(p, q) ==
  \/ p.playsInWeek > q.playsInWeek
  \/ p.playsInWeek = q.playsInWeek /\ p.weekStart < q.weekStart

\* C18: the list is in descending order of playsInWeek, ties in ascending
\* order of weekStart; it has at most 100 entries, each a qualifying track
\* with its peak week; no qualifying track left out ranks before a kept one
C18_ObsessionsOrdered ==
  pc = "obsRanked" =>
    /\ Len(ret) <= 100
    /\ \A k \in 1..(Len(ret) - 1) :
         ~RanksBefore(ret[k + 1].intensePeriod, ret[k].intensePeriod)
    /\ \A k \in DOMAIN ret :
         \E i \in DOMAIN args.songs :
           /\ args.songs[i] = ret[k].song
           /\ Qualifies(i)
           /\ ret[k].intensePeriod = PeakOf(i)
    /\ \A i \in DOMAIN args.songs :
         (Qualifies(i) /\ ~KeptIn(ret, i)) =>
           \A k \in DOMAIN ret : ~RanksBefore(PeakOf(i), ret[k].intensePeriod)

\* 101 qualifying tracks were cut to 100; the list has tracks that differ
\* in playsInWeek and tracks that tie and differ in weekStart
C18_Witness ==
  /\ pc = "obsRanked"
  /\ Len(ret) = 100
  /\ \E i \in DOMAIN args.songs : Qualifies(i) /\ ~KeptIn(ret, i)
  /\ ret[1].intensePeriod.playsInWeek > ret[100].intensePeriod.playsInWeek
  /\ \E k \in 1..99 :
       /\ ret[k].intensePeriod.playsInWeek = ret[k + 1].intensePeriod.playsInWeek
       /\ ret[k].intensePeriod.weekStart < ret[k + 1].intensePeriod.weekStart

\* the (album name, artist name) pair an event is credited to
AlbumPairOf(e) ==
  <<IF e.album = <<>> THEN UnknownAlbum ELSE e.album,
    IF e.artist = <<>> THEN UnknownArtist ELSE e.artist>>

\* C19: there is one album aggregate per (album name, artist name) pair of
\* the included events, and it counts exactly the events of its pair
C19_AlbumIdentityIsThePair ==
  pc = "statsDone" =>
    LET pairs == {AlbumPairOf(entries[i]) : i \in IncludedIdx}
    IN /\ Len(stats.albums) = Cardinality(pairs)
       /\ \A p \in pairs :
            \E k \in DOMAIN stats.albums :
              /\ stats.albums[k].name = p[1]
              /\ stats.albums[k].artist = p[2]
              /\ stats.albums[k].playCount =
                   Cardinality({i \in IncludedIdx : AlbumPairOf(entries[i]) = p})

\* the artist name an event is credited to
ArtistOf(e) == IF e.artist = <<>> THEN UnknownArtist ELSE e.artist

\* the events of the batch the aggregation counted for the artist name
CreditedTo(name) ==
  {i \in DOMAIN allProcessedData :
     ~IsSkipped(allProcessedData[i]) /\ ArtistOf(allProcessedData[i]) = name}

\* the timestamps of the events counted for the artist name
StampsOf(name) == {allProcessedData[i].ts : i \in CreditedTo(name)} \ {NaN}

\* C20: in a returned result every artist aggregate has the earliest
\* timestamp of the included events credited to its name as firstListen
C20_ArtistFirstListenIsMin ==
  (pc = "done" /\ result.outcome = "returned") =>
    \A k \in DOMAIN result.topArtists :
      LET played == StampsOf(result.topArtists[k].name)
      IN played # {} => /\ result.topArtists[k].firstListen \in played
                        /\ \A t \in played : result.topArtists[k].firstListen <= t

(***************************************************************************)
(* processFiles on batches whose events credit one track to an artist      *)
(* name written in two ways                                                *)
(***************************************************************************)
CreditPool ==
  { File(NameHistory1, "array",
         << Ev(Ab, ArtistX, Lp, 200000, T(0, 0), "none") >>, <<>>),
    File(NameHistory1, "array",
         << Ev(Ab, ArtistXLower, Lp, 200000, T(1, 0), "none") >>, <<>>),
    File(NameEndsong, "array",
         << Ev(Cd, ArtistX, Lp, 200000, T(1, 0), "none"),
            Ev(Cd, ArtistX, Lp, 200000, T(2, 0), "none") >>, <<>>),
    File(NameEndsong, "array",
         << Ev(Cd, ArtistXLower, Lp, 200000, T(2, 0), "none") >>, <<>>),
    File(NameApple, "invalid", <<>>,
         << Row(ArtistX \o DashSep \o Ab, T(1, 12), TRUE) >>) }

InitCredit == InitFiles(CreditPool)

SpecCredit == InitCredit /\ [][Next]_vars

\* C21: in a returned result every artist with a counted play has a
\* mostPlayedSong that is a track credited to that artist, with the largest
\* playCount among that artist's tracks, never the placeholder
C21_MostPlayedSongIsReal ==
  (pc = "done" /\ result.outcome = "returned") =>
    \A k \in DOMAIN result.topArtists :
      result.topArtists[k].playCount >= 1 =>
        /\ result.topArtists[k].mostPlayedSong # Placeholder
        /\ \E j \in DOMAIN result.processedTracks :
             /\ result.processedTracks[j].artist = result.topArtists[k].name
             /\ result.processedTracks[j].key = result.topArtists[k].mostPlayedSong.key
        /\ \A j \in DOMAIN result.processedTracks :
             result.processedTracks[j].artist = result.topArtists[k].name
               => result.processedTracks[j].playCount
                    <= result.topArtists[k].mostPlayedSong.playCount

(***************************************************************************)
(* The mapping of one Apple Music row, called on its own                   *)
(***************************************************************************)
ArtistY == <<"Y">>

\* combined fields: artist before a dash, artist after a comma, neither,
\* both, several of one, a separator at either end, wide separators, the
\* title and artist of the override
FieldPool ==
  { ArtistX \o DashSep \o Ab,
    Cd \o CommaSep \o ArtistX,
    Ab,
    ArtistX \o CommaSep \o ArtistY \o DashSep \o Ab,
    Ab \o CommaSep \o Cd \o CommaSep \o ArtistX,
    DashSep \o Ab,
    ArtistX \o DashSep \o Ab \o DashSep \o Cd,
    ArtistX \o DashSep,
    CommaSep \o ArtistX,
    Ab \o CommaSep,
    ArtistX \o <<" ">> \o DashSep \o <<" ">> \o Ab,
    Ab \o <<",">> \o ArtistX,
    Ab \o <<"-">> \o ArtistX,
    KennyRogersName \o DashSep \o JustDroppedInTitle }

InitRows ==
  /\ impl \in Impls
  /\ now = T(9, 0)
  /\ pc = "row"
  /\ idx = 1
  /\ args \in {Row(f, t, u) : f \in FieldPool, t \in {T(1, 12), NaN}, u \in BOOLEAN}
  /\ ret = <<>>
  /\ FilesIdle /\ StatsIdle /\ StreakIdle /\ ObsIdle /\ UiIdle

\* the callback of results.data.map on one row that passed the filter
RowCall ==
  /\ pc = "row"
  /\ ret' = appleRow(impl, args, now)
  /\ pc' = "rowed"
  /\ UNCHANGED <<impl, now, idx, args, filesVars, statsVars, streakVars,
                 obsessions, uiVars>>

NextRows == RowCall

SpecRows == InitRows /\ [][NextRows]_vars

\* the text before the first ' - ' and the text after it
ByDash(field) ==
  LET dash == indexOf(field, DashSep, 1)
  IN [artist |-> trim(SubSeq(field, 1, dash - 1)),
      track  |-> trim(SubSeq(field, dash + 3, Len(field)))]

\* the last ', '-separated segment and the text before it
ByComma(field) ==
  LET comma == lastIndexOf(field, CommaSep, 1)
  IN [artist |-> trim(SubSeq(field, comma + 2, Len(field))),
      track  |-> trim(SubSeq(field, 1, comma - 1))]

\* the two conventions, the dash first
ByConvention(field) ==
  IF includes(field, DashSep) THEN ByDash(field)
  ELSE IF includes(field, CommaSep) THEN ByComma(field)
  ELSE [artist |-> UnknownArtist, track |-> field]

\* C22: the row mapping splits the combined field by the dash convention,
\* else by the comma convention, else credits 'Unknown Artist'; a row
\* flagged user-initiated gets the full-play time 240000
C22_AppleSplit ==
  (pc = "rowed" /\ ~ret.threw) =>
    /\ ret.event[1].artist = ByConvention(args.trackName).artist
    /\ ret.event[1].track = ByConvention(args.trackName).track
    /\ args.userInitiated => ret.event[1].ms = 240000

(***************************************************************************)
(* Display metadata of a track over the events merged into it              *)
(***************************************************************************)
\* the album name of track i changes in this step
AlbumReplaced(i) == stats'.trackMap[i].albumName # stats.trackMap[i].albumName

\* C23: a step of the aggregation replaces a track's albumName only with an
\* event from spotify while the track has no spotify data, and never
\* replaces an albumName that is not 'Unknown Album'
C23_AlbumNameMonotonic ==
  [][pc = "stats" /\ idx <= Len(entries) =>
       \A i \in DOMAIN stats.trackMap :
         /\ i \in DOMAIN stats'.trackMap
         /\ stats'.trackMap[i].mk = stats.trackMap[i].mk
         /\ AlbumReplaced(i) =>
              /\ entries[idx].source = "spotify"
              /\ ~stats.trackMap[i].hasSpotifyData
              /\ stats.trackMap[i].albumName = UnknownAlbum]_vars

\* a track first seen in an Apple Music event has got the album name of a
\* later spotify event
C23_Witness ==
  /\ pc = "statsDone"
  /\ Len(entries) >= 2
  /\ Included(entries[1]) /\ entries[1].source = "apple_music"
  /\ \E i \in DOMAIN stats.trackMap :
       /\ stats.trackMap[i].mk = KeyOf(entries[1])
       /\ stats.trackMap[i].albumName = Lp

(***************************************************************************)
(* PodcastRankings: the filter of filteredEpisodes                         *)
(*                                                                         *)
(* A date field holds '' (Null here) or 'yyyy-MM-dd', kept as the number   *)
(* of its day.  new Date('yyyy-MM-dd') is midnight UTC of that day, and    *)
(* startOfDay/endOfDay of date-fns work in the local time zone, `zone`     *)
(* hours ahead of UTC.  Times are whole hours, so the last instant of a    *)
(* day that a time can equal is its hour 23.                               *)
(***************************************************************************)
MaxPodEntries == 2

\* new Date('yyyy-MM-dd')
dateOf(day) == day * DayLen

\* startOfDay(date): local midnight of the local day of the instant
startOfDay(date, zone) == ((date + zone) \div DayLen) * DayLen - zone

\* endOfDay(date): the last instant of the local day of the instant
endOfDay(date, zone) == startOfDay(date, zone) + DayLen - 1

\* const start = ..., const end = ...
queryStart(startDate, zone) ==
  IF startDate # Null THEN startOfDay(dateOf(startDate), zone) ELSE 0

queryEnd(endDate, zone, clock) ==
  IF endDate # Null THEN endOfDay(dateOf(endDate), zone) ELSE clock

\* the condition of the first pass over rawPlayData
passes(entry, start, end, selectedShows) ==
  /\ JsLeq(start, entry.ts)
  /\ JsLeq(entry.ts, end)
  /\ entry.show # <<>>
  /\ entry.episode # <<>>
  /\ (Len(selectedShows) = 0 \/ entry.show \in Range(selectedShows))

\* episodeStats after the first pass: one group per key, in the order the
\* keys were first met, each with the events that passed
RECURSIVE groupEpisodes(_, _, _, _, _, _)
groupEpisodes(groups, rawPlayData, i, start, end, selectedShows) ==
  IF i > Len(rawPlayData) THEN groups
  ELSE IF ~passes(rawPlayData[i], start, end, selectedShows)
  THEN groupEpisodes(groups, rawPlayData, i + 1, start, end, selectedShows)
  ELSE LET key == rawPlayData[i].episode \o <<"-">> \o rawPlayData[i].show
           at  == PosOf(groups, "key", key)
           next == IF at = 0
                   THEN Append(groups, [key |-> key, show |-> rawPlayData[i].show,
                                        events |-> {i}])
                   ELSE [groups EXCEPT ![at].events = @ \cup {i}]
       IN groupEpisodes(next, rawPlayData, i + 1, start, end, selectedShows)

\* the value of the filteredEpisodes memo
filteredEpisodes(rawPlayData, startDate, endDate, selectedShows, zone, clock) ==
  IF Len(rawPlayData) = 0 THEN <<>>
  ELSE groupEpisodes(<<>>, rawPlayData, 1, queryStart(startDate, zone),
                     queryEnd(endDate, zone, clock), selectedShows)

ShowS == <<"S">>
ShowT == <<"T">>
Ep1 == <<"E","1">>
Ep2 == <<"E","2">>

Play(show, episode, ts) == [show |-> show, episode |-> episode, ts |-> ts]

\* plays of episodes and of a track (no show, no episode), around the
\* start and the end of 2023-12-31 in each zone
PodPool ==
  { Play(ShowS, Ep1, T(1, 0)), Play(ShowS, Ep1, T(1, 17)),
    Play(ShowS, Ep2, T(0, 22)), Play(ShowT, Ep1, T(1, 23)),
    Play(ShowT, Ep2, T(2, 3)), Play(ShowT, <<>>, T(1, 12)),
    Play(<<>>, Ep1, T(1, 12)), Play(<<>>, <<>>, T(1, 12)),
    Play(ShowS, Ep2, NaN) }

ZonePool == {0 - 5, 0, 2}

InitPodcast ==
  /\ impl = "rankings"
  /\ now = T(9, 0)
  /\ pc = "query"
  /\ idx = 1
  /\ args \in [rawPlayData : SeqsUpTo(PodPool, MaxPodEntries),
               startDate : {Null, Day0 + 1},
               endDate : {Null, Day0 + 1, Day0 + 2},
               selectedShows : {<<>>, <<ShowS>>, <<ShowS, ShowT>>},
               zone : ZonePool]
  /\ ret = <<>>
  /\ FilesIdle /\ StatsIdle /\ StreakIdle /\ ObsIdle /\ UiIdle

\* a render computes the memo
QueryCall ==
  /\ pc = "query"
  /\ ret' = filteredEpisodes(args.rawPlayData, args.startDate, args.endDate,
                             args.selectedShows, args.zone, now)
  /\ pc' = "queried"
  /\ UNCHANGED <<impl, now, idx, args, filesVars, statsVars, streakVars,
                 obsessions, uiVars>>

NextPodcast == QueryCall

SpecPodcast == InitPodcast /\ [][NextPodcast]_vars

\* the first and the last whole hour of a calendar day of the user's zone
DayFirst(day, zone) == day * DayLen - zone
DayLast(day, zone) == day * DayLen - zone + DayLen - 1

\* the events the query is to group
Wanted ==
  {i \in DOMAIN args.rawPlayData :
     LET e == args.rawPlayData[i]
     IN /\ e.show # <<>> /\ e.episode # <<>>
        /\ e.ts # NaN
        /\ DayFirst(args.startDate, args.zone) <= e.ts
        /\ e.ts <= DayLast(args.endDate, args.zone)
        /\ (args.selectedShows = <<>> \/ e.show \in Range(args.selectedShows))}

\* the events the query grouped
Grouped == UNION {ret[g].events : g \in DOMAIN ret}

\* C24: with both dates set, the query groups exactly the events with a
\* show name and an episode name whose time lies from the start of the
\* start date to the end of the end date, all of them when no show is
\* selected and those of the selected shows otherwise; with none it gives
\* the empty list
C24_PodcastFilter ==
  (pc = "queried" /\ args.startDate # Null /\ args.endDate # Null) =>
    /\ Grouped = Wanted
    /\ Wanted = {} => ret = <<>>

(***************************************************************************)
(* PodcastRankings: the 'Top N' input                                      *)
(***************************************************************************)
MaxChanges == 2
MinTopN == 1
MaxTopN == 999
InitialTopN == 50

\* parseInt(text): white space, a sign, then the longest run of digits;
\* [nan, value]
RECURSIVE digitsValue(_, _, _)
digitsValue(text, i, acc) ==
  IF i > Len(text) \/ text[i] \notin Digit THEN acc
  ELSE digitsValue(text, i + 1,
                   acc * 10 + (CHOOSE d \in 0..9 : DigitSeq[d + 1] = text[i]))

parseInt(text) ==
  LET body == trim(text)
      neg  == body # <<>> /\ body[1] = "-"
      from == IF body # <<>> /\ body[1] \in {"-", "+"} THEN 2 ELSE 1
  IN IF from > Len(body) \/ body[from] \notin Digit
     THEN [nan |-> TRUE, value |-> 0]
     ELSE [nan |-> FALSE,
           value |-> IF neg THEN 0 - digitsValue(body, from, 0)
                     ELSE digitsValue(body, from, 0)]

\* Math.min(999, Math.max(1, parseInt(value))); both give NaN for NaN
clampTopN(text) ==
  LET n == parseInt(text)
  IN IF n.nan THEN NaN
     ELSE IF n.value < MinTopN THEN MinTopN
     ELSE IF n.value > MaxTopN THEN MaxTopN ELSE n.value

\* values of the number input: empty (also what the browser reports for
\* text that is no number), in range, at and beyond the ends, negative,
\* with a fraction, with an exponent
TopNTexts ==
  { <<>>, <<"1">>, <<"5">>, <<"0">>, <<"9","9","9">>, <<"1","0","0","0">>,
    <<"-","3">>, <<"1","2",".","7">>, <<"1","e","3">>, <<"0","0","7">>,
    <<"a","b","c">> }

\* args: the texts entered so far; ret: the topN state
InitTopN ==
  /\ impl = "rankings"
  /\ now = T(9, 0)
  /\ pc = "topN"
  /\ idx = 1
  /\ args = <<>>
  /\ ret = InitialTopN
  /\ FilesIdle /\ StatsIdle /\ StreakIdle /\ ObsIdle /\ UiIdle

\* onChange of the 'Top N' input
TopNChange(text) ==
  /\ pc = "topN"
  /\ Len(args) < MaxChanges
  /\ args' = Append(args, text)
  /\ ret' = clampTopN(text)
  /\ UNCHANGED <<impl, now, pc, idx, filesVars, statsVars, streakVars,
                 obsessions, uiVars>>

NextTopN == \E text \in TopNTexts : TopNChange(text)

SpecTopN == InitTopN /\ [][NextTopN]_vars

\* C25: topN is always an integer from 1 to 999
C25_TopNBounded == pc = "topN" => ret \in MinTopN..MaxTopN

(***************************************************************************)
(* Conservation of counts across the aggregates of calculatePlayStats      *)
(***************************************************************************)
\* the sum of a numeric field over the records of a sequence
RECURSIVE SumOf(_, _)
SumOf(rows, field) ==
  IF rows = <<>> THEN 0 ELSE Head(rows)[field] + SumOf(Tail(rows), field)

\* the number of times held by all play histories
RECURSIVE HistoryTotal(_)
HistoryTotal(playHistory) ==
  IF playHistory = <<>> THEN 0
  ELSE Len(Head(playHistory).times) + HistoryTotal(Tail(playHistory))

\* C26: after calculatePlayStats, processedSongs is the sum of playCount
\* over the tracks, over the artists and over the albums and the number of
\* times in the play histories; totalListeningTime is the sum of
\* totalPlayed over the tracks and over the artists
C26_CountsConserved ==
  pc = "statsDone" =>
    /\ stats.processedSongs = SumOf(stats.trackMap, "playCount")
    /\ stats.processedSongs = SumOf(stats.artists, "playCount")
    /\ stats.processedSongs = SumOf(stats.albums, "playCount")
    /\ stats.processedSongs = HistoryTotal(stats.playHistory)
    /\ stats.totalListeningTime = SumOf(stats.trackMap, "totalPlayed")
    /\ stats.totalListeningTime = SumOf(stats.artists, "totalPlayed")

\* three counted plays spread over two tracks, two artists and two albums,
\* one album holding two plays of one track
C26_Witness ==
  /\ pc = "statsDone"
  /\ stats.processedSongs = 3
  /\ Len(stats.trackMap) = 2 /\ Len(stats.artists) = 2 /\ Len(stats.albums) = 2
  /\ \E a \in DOMAIN stats.albums :
       stats.albums[a].playCount = 2 /\ Cardinality(stats.albums[a].trackCount) = 1

(***************************************************************************)
(* The shared event list of processFiles                                   *)
(***************************************************************************)
\* how often an event occurs in a list
CountIn(events, e) == Cardinality({i \in DOMAIN events : events[i] = e})

\* what the callback of file k returns to Promise.all
Returned(k) == parseFile(impl, files[k], now).events

\* C27: whatever order the callbacks ran in, a returned result holds every
\* event of every file's return value exactly once in rawPlayData, and
\* totalEntries is the number of events the callbacks returned
C27_NoLostUpdate ==
  (pc = "done" /\ result.outcome = "returned") =>
    /\ result.stats.totalEntries = Len(EventsInFileOrder(1))
    /\ result.stats.totalEntries = Len(result.rawPlayData)
    /\ \A k \in DOMAIN files :
         \A n \in DOMAIN Returned(k) :
           CountIn(result.rawPlayData, Returned(k)[n])
             = CountIn(EventsInFileOrder(1), Returned(k)[n])

\* two files that both yield events, the second one read first
C27_Witness ==
  /\ pc = "done" /\ result.outcome = "returned"
  /\ order = <<2, 1>>
  /\ Len(Returned(1)) = 2 /\ Len(Returned(2)) >= 1
  /\ Len(result.rawPlayData) >= 3

(***************************************************************************)
(* Brief obsessions of tracks whose names hold the '-' that joins a key    *)
(***************************************************************************)
TrackA == <<"a">>
TrackAB == <<"a","-","b">>

\* plays of 'a' by 'b-c' and of 'a-b' by 'c' on two days of one week, and
\* of 'Ab' under two display names
HyphenPool ==
  { Ev(TrackA, ArtistBC, Lp, 200000, T(0, 0), "spotify"),
    Ev(TrackA, ArtistBC, Lp, 200000, T(1, 0), "spotify"),
    Ev(TrackAB, ArtistC, Lp, 200000, T(1, 0), "spotify"),
    Ev(Ab, ArtistX, Lp, 200000, T(0, 0), "spotify"),
    Ev(AbLower, ArtistX, Lp, 200000, T(1, 0), "spotify") }

InitObsKeys ==
  /\ impl \in Impls
  /\ now = T(9, 0)
  /\ pc = "obsStats"
  /\ idx = 1
  /\ entries \in SeqsUpTo(HyphenPool, MaxObsEntries)
  /\ stats = EmptyStats
  /\ obsessions = [out |-> <<>>, playHistory |-> <<>>]
  /\ FilesIdle /\ StreakIdle /\ PureIdle /\ UiIdle

SpecObsKeys == InitObsKeys /\ [][NextObsessions]_vars

\* C28: every brief obsession has at most 50 plays, at least 5 plays in its
\* best week, and no more plays in that week than plays in total
C28_ObsessionWithinPlayCount ==
  pc = "obsDone" =>
    \A k \in DOMAIN obsessions.out :
      /\ obsessions.out[k].song.playCount <= MaxObsessionPlays
      /\ MinPlaysInWeek <= obsessions.out[k].intensePeriod.playsInWeek
      /\ obsessions.out[k].intensePeriod.playsInWeek <= obsessions.out[k].song.playCount

(***************************************************************************)
(* processFiles on batches with plays that have no track name (podcast     *)
(* episodes in a Spotify history)                                          *)
(***************************************************************************)
TallyPool ==
  { File(NameHistory1, "array",
         << Ev(Ab, ArtistX, Lp, 200000, T(0, 0), "none"),
            Ev(<<>>, <<>>, <<>>, 10000, T(0, 1), "none") >>, <<>>),
    File(NameHistory1, "array",
         << Ev(<<>>, <<>>, <<>>, 200000, T(1, 0), "none") >>, <<>>),
    File(NameHistory1, "array",
         << Ev(Ab, ArtistX, Lp, 10000, T(1, 0), "none") >>, <<>>),
    File(NameEndsong, "array",
         << Ev(Cd, ArtistX, Lp, 30000, T(2, 0), "none"),
            Ev(Cd, ArtistX, Lp, 29999, T(2, 1), "none") >>, <<>>),
    File(NameApple, "invalid", <<>>,
         << Row(ArtistX \o DashSep \o Ab, T(1, 12), FALSE) >>) }

InitTally == InitFiles(TallyPool)

SpecTally == InitTally /\ [][Next]_vars

\* C29: in a returned result every event of rawPlayData is counted in
\* exactly one of processedSongs, shortPlays and nullTrackNames
C29_TalliesPartition ==
  (pc = "done" /\ result.outcome = "returned") =>
    result.stats.processedSongs + result.stats.shortPlays
      + result.stats.nullTrackNames = result.stats.totalEntries

\* C30: isProcessing is true while an invocation of processFiles has
\* started and not finished, and false once every invocation has finished
C30_IsProcessingTracksWork ==
  /\ (\E k \in DOMAIN calls : InFlight(calls[k])) => ui.isProcessing
  /\ (\A k \in DOMAIN calls : calls[k].phase = "done") => ~ui.isProcessing

====
